---------------------------- MODULE Spec2Model ----------------------------
(***************************************************************************)
(* A model of jsweb's request-dispatch core: the route table of            *)
(* jsweb/routing.py (Route, Router) and the terminal dispatch stage of     *)
(* jsweb/app.py.                                                           *)
(*                                                                         *)
(* Strings are sequences of one-character strings, so that the path        *)
(* compiler (re.findall, str.replace, re.compile), the matcher (re.match), *)
(* the converters (int(), str()) and url_for are computed character by     *)
(* character as the code computes them.                                    *)
(***************************************************************************)
EXTENDS Integers, Sequences, FiniteSets, TLC

(***************************************************************************)
(* Bounds of the model.                                                    *)
(***************************************************************************)
\* successful registrations in one run of the routing specification
MaxRoutes == 3
\* successful registrations in one run of the URL-generation specification
MaxUrlRoutes == 2

(***************************************************************************)
(* Characters.  The alphabet of the modelled inputs is letters, digits,    *)
(* "/", "-", ".", "<", ":" and ">".  Of these only "." is special to re    *)
(* outside a character class.  A request path may also hold a newline,     *)
(* which "." does not match and before which, as the last character of the *)
(* string, "$" matches.                                                    *)
(***************************************************************************)
Digits == <<"0", "1", "2", "3", "4", "5", "6", "7", "8", "9">>

DigitSet == {Digits[i] : i \in 1..10}

\* the letters of ASCII
LetterSet ==
    {"a", "b", "c", "d", "e", "f", "g", "h", "i", "j", "k", "l", "m", "n",
     "o", "p", "q", "r", "s", "t", "u", "v", "w", "x", "y", "z",
     "A", "B", "C", "D", "E", "F", "G", "H", "I", "J", "K", "L", "M", "N",
     "O", "P", "Q", "R", "S", "T", "U", "V", "W", "X", "Y", "Z"}

\* the newline character
NL == "\n"

\* \w of re, for the characters of ASCII
IsWord(c) == c \in LetterSet \cup DigitSet \cup {"_"}

\* the value of a digit character: int("7") = 7
DigitVal(c) == (CHOOSE i \in 1..10 : Digits[i] = c) - 1

\* s[i..j] as Python's s[i-1:j]
Slice(s, i, j) == SubSeq(s, i, j)

\* str.startswith at an offset: t occurs in s at position i
OccursAt(s, t, i) ==
    /\ i + Len(t) - 1 <= Len(s)
    /\ \A k \in 1..Len(t) : s[i + k - 1] = t[k]

\* `t in s` for strings
Contains(s, t) == \E i \in 1..(Len(s) + 1) : OccursAt(s, t, i)

\* str.isdigit() on the modelled alphabet: non-empty and all digits
IsDigit(s) == Len(s) > 0 /\ \A i \in 1..Len(s) : s[i] \in DigitSet

(***************************************************************************)
(* Values.  A parameter value is a Python int, a Python str or None; the   *)
(* three are kept apart by the field name, as Python keeps 42 and "42"     *)
(* apart.                                                                  *)
(***************************************************************************)
IntV(n) == [int |-> n]

StrV(s) == [str |-> s]

NoneV == [none |-> TRUE]

IsIntV(v) == DOMAIN v = {"int"}

IsStrV(v) == DOMAIN v = {"str"}

\* int(s) of a digit string, left to right
RECURSIVE DigitsToNat(_, _)
DigitsToNat(s, acc) ==
    IF s = <<>> THEN acc
    ELSE DigitsToNat(Tail(s), acc * 10 + DigitVal(Head(s)))

\* int(value) for an optionally signed digit string
ParseInt(s) ==
    IF Len(s) > 0 /\ Head(s) = "-" THEN 0 - DigitsToNat(Tail(s), 0)
    ELSE DigitsToNat(s, 0)

\* str(n) of a natural number
RECURSIVE NatToStr(_)
NatToStr(n) ==
    IF n < 10 THEN <<Digits[n + 1]>>
    ELSE NatToStr(n \div 10) \o <<Digits[(n % 10) + 1]>>

\* str(n) of a Python int
IntToStr(n) == IF n < 0 THEN <<"-">> \o NatToStr(0 - n) ELSE NatToStr(n)

\* str(value) as url_for applies it to a supplied parameter
PyStr(v) == IF IsIntV(v) THEN IntToStr(v.int) ELSE v.str

(***************************************************************************)
(* The converters of routing.py.                                           *)
(***************************************************************************)
\* a converter that returns the captured text itself instead of an integer
IntConverterKeepsText(value) == StrV(value)

\* _int_converter
IntConverter(value) ==
    IF Len(value) > 0 /\ Head(value) = "-" /\ IsDigit(Tail(value))
    THEN IntV(ParseInt(value))
    ELSE IF IsDigit(value) THEN IntV(ParseInt(value)) ELSE NoneV

\* _str_converter
StrConverter(value) == StrV(value)

\* _path_converter
PathConverter(value) == StrV(value)

K_str == <<"s", "t", "r">>

K_int == <<"i", "n", "t">>

K_path == <<"p", "a", "t", "h">>

\* Route.TYPE_CONVERTERS.keys(), in the dict's order
ConverterKinds == <<K_str, K_int, K_path>>

\* TYPE_CONVERTERS.get(type_name, TYPE_CONVERTERS['str']): the kind whose
\* converter and regex part are used
EffectiveKind(type_name) ==
    IF type_name \in {K_str, K_int, K_path} THEN type_name ELSE K_str

\* self.converters[name](value)
Convert(kind, value) ==
    IF kind = K_int THEN IntConverter(value)
    ELSE IF kind = K_path THEN PathConverter(value)
    ELSE StrConverter(value)

(***************************************************************************)
(* The path compiler: Route._compile_path.                                 *)
(***************************************************************************)
\* the length of the longest run of \w characters of s that starts at i
RECURSIVE WordRun(_, _)
WordRun(s, i) ==
    IF i <= Len(s) /\ IsWord(s[i]) THEN 1 + WordRun(s, i + 1) ELSE 0

\* re's match of <(\w+):(\w+)> at position i of s.  Both \w+ are greedy and
\* the character after each must be ":" or ">", which \w does not match, so
\* backtracking finds nothing the longest runs do not.
TokenAt(s, i) ==
    LET k == WordRun(s, i + 1)
        m == WordRun(s, i + 2 + k)
    IN  IF /\ i <= Len(s) /\ s[i] = "<"
           /\ k >= 1
           /\ i + 1 + k <= Len(s) /\ s[i + 1 + k] = ":"
           /\ m >= 1
           /\ i + 2 + k + m <= Len(s) /\ s[i + 2 + k + m] = ">"
        THEN [ok |-> TRUE,
              type_name |-> Slice(s, i + 1, i + k),
              param_name |-> Slice(s, i + 2 + k, i + 1 + k + m),
              next |-> i + 3 + k + m]
        ELSE [ok |-> FALSE]

\* re.findall(r"<(\w+):(\w+)>", path): the non-overlapping matches, left to
\* right, each as (type_name, param_name)
RECURSIVE FindAllFrom(_, _)
FindAllFrom(s, i) ==
    IF i > Len(s) THEN <<>>
    ELSE LET t == TokenAt(s, i)
         IN  IF t.ok
             THEN <<[type_name |-> t.type_name, param_name |-> t.param_name]>>
                      \o FindAllFrom(s, t.next)
             ELSE FindAllFrom(s, i + 1)

ParamDefs(path) == FindAllFrom(path, 1)

\* One literal character of the pattern as re.compile reads it: "." is any
\* character, every other character of the alphabet matches itself.
LiteralElem(c) == IF c = "." THEN [t |-> "any"] ELSE [t |-> "lit", c |-> c]

\* The regular expression "^" + path + "$" after the loop's replace calls,
\* as the sequence of its elements.  str.replace substitutes every occurrence
\* of "<type:name>"; each occurrence is a match findall reported (an
\* occurrence cannot lie inside another match, whose inner characters are \w
\* and one ":"), and no replacement text "(?P<name>...)" holds a ":" that a
\* later replace could match, so each token becomes its named group in place
\* and the text between the tokens is left for re.compile to read.
RECURSIVE RegexFrom(_, _)
RegexFrom(s, i) ==
    IF i > Len(s) THEN <<>>
    ELSE LET t == TokenAt(s, i)
         IN  IF t.ok
             THEN <<[t |-> "grp", name |-> t.param_name,
                     kind |-> EffectiveKind(t.type_name)]>> \o RegexFrom(s, t.next)
             ELSE <<LiteralElem(s[i])>> \o RegexFrom(s, i + 1)

\* param_names: one entry per findall match
ParamNames(path) ==
    LET defs == ParamDefs(path) IN [i \in 1..Len(defs) |-> defs[i].param_name]

\* self.converters: param_name -> kind of the converter; a later definition
\* of the same name overwrites an earlier one
ConvertersOf(path) ==
    LET defs == ParamDefs(path)
        names == {defs[i].param_name : i \in 1..Len(defs)}
        lastOf(n) == CHOOSE i \in 1..Len(defs) :
                        /\ defs[i].param_name = n
                        /\ \A j \in (i + 1)..Len(defs) : defs[j].param_name # n
    IN  [n \in names |-> EffectiveKind(defs[lastOf(n)].type_name)]

\* a compiler that lets a repeated group name through
CompilesRepeatedNames(path) ==
    LET names == ParamNames(path)
    IN  \A i \in 1..Len(names) : names[i][1] \notin DigitSet

Compiles(path) ==
    LET names == ParamNames(path)
    IN  /\ \A i \in 1..Len(names) : names[i][1] \notin DigitSet
        /\ \A i, j \in 1..Len(names) : names[i] = names[j] => i = j

\* self.is_static = '<' not in path
IsStatic(path) == ~Contains(path, <<"<">>)

\* Route.__init__ (for a path the compiler accepts)
NewRoute(path, handler, methods, endpoint) ==
    [path |-> path,
     handler |-> handler,
     methods |-> methods,
     endpoint |-> endpoint,
     is_static |-> IsStatic(path),
     regex |-> IF IsStatic(path) THEN <<>> ELSE RegexFrom(path, 1),
     param_names |-> IF IsStatic(path) THEN <<>> ELSE ParamNames(path),
     converters |-> IF IsStatic(path) THEN <<>> ELSE ConvertersOf(path)]

\* Route.__init__ raises re.error
RouteRaises(path) == ~IsStatic(path) /\ ~Compiles(path)

(***************************************************************************)
(* The matcher: re.match of the compiled expression, by backtracking in    *)
(* re's order of preference.                                               *)
(***************************************************************************)
\* the length of the longest run from pos of characters other than "/"
RECURSIVE NonSlashRun(_, _)
NonSlashRun(s, pos) ==
    IF pos <= Len(s) /\ s[pos] # "/" THEN 1 + NonSlashRun(s, pos + 1) ELSE 0

\* the length of the longest run from pos of characters other than newline
RECURSIVE DotRun(_, _)
DotRun(s, pos) ==
    IF pos <= Len(s) /\ s[pos] # NL THEN 1 + DotRun(s, pos + 1) ELSE 0

\* the length of the longest run of digits from pos
RECURSIVE DigitRun(_, _)
DigitRun(s, pos) ==
    IF pos <= Len(s) /\ s[pos] \in DigitSet THEN 1 + DigitRun(s, pos + 1) ELSE 0

\* The positions at which a group that starts at pos may end (the position
\* after its last character), in the order re tries them:
\*   str   [^/]+   greedy: the longest run first
\*   int   -?\d+   greedy: the sign if there is one, then the longest run
\*   path  .+?     lazy: one character first
GroupEnds(kind, s, pos) ==
    IF kind = K_path THEN [k \in 1..DotRun(s, pos) |-> pos + k]
    ELSE IF kind = K_int
    THEN LET sign == IF pos <= Len(s) /\ s[pos] = "-" THEN 1 ELSE 0
             n == DigitRun(s, pos + sign)
         IN  [k \in 1..n |-> pos + sign + n - k + 1]
    ELSE LET n == NonSlashRun(s, pos)
         IN  [k \in 1..n |-> pos + n - k + 1]

NoMatch == [ok |-> FALSE]

NoGroups == [n \in {} |-> <<>>]

RECURSIVE MatchFrom(_, _, _, _)
RECURSIVE TryEnds(_, _, _, _, _, _)
\* the elements re[i..] against s[pos..], to "$": the end of s, or the
\* newline that is the last character of s
MatchFrom(re, i, s, pos) ==
    IF i > Len(re)
    THEN IF pos = Len(s) + 1 \/ (pos = Len(s) /\ s[pos] = NL)
         THEN [ok |-> TRUE, groups |-> NoGroups] ELSE NoMatch
    ELSE IF re[i].t = "lit"
    THEN IF pos <= Len(s) /\ s[pos] = re[i].c
         THEN MatchFrom(re, i + 1, s, pos + 1) ELSE NoMatch
    ELSE IF re[i].t = "any"
    THEN IF pos <= Len(s) /\ s[pos] # NL
         THEN MatchFrom(re, i + 1, s, pos + 1) ELSE NoMatch
    ELSE TryEnds(re, i, s, pos, GroupEnds(re[i].kind, s, pos), 1)

\* the group re[i] ending at ends[k], ends[k+1], ...: the first that lets the
\* rest of the expression match
TryEnds(re, i, s, pos, ends, k) ==
    IF k > Len(ends) THEN NoMatch
    ELSE LET rest == MatchFrom(re, i + 1, s, ends[k])
         IN  IF rest.ok
             THEN [ok |-> TRUE,
                   groups |-> [n \in DOMAIN rest.groups \cup {re[i].name} |->
                                 IF n = re[i].name
                                 THEN Slice(s, pos, ends[k] - 1)
                                 ELSE rest.groups[n]]]
             ELSE TryEnds(re, i, s, pos, ends, k + 1)

NoParams == [n \in {} |-> NoneV]

\* self.regex.match(path)
RegexMatch(route, path) == MatchFrom(route.regex, 1, path, 1)

\* Route.match: None is [ok |-> FALSE]; a parameter mapping is
\* [ok |-> TRUE, params |-> name -> value].  No converter raises.
Match(route, path) ==
    IF route.is_static
    THEN IF path = route.path THEN [ok |-> TRUE, params |-> NoParams] ELSE NoMatch
    ELSE LET m == RegexMatch(route, path)
         IN  IF ~m.ok THEN NoMatch
             ELSE [ok |-> TRUE,
                   params |-> [n \in DOMAIN m.groups |->
                                 Convert(route.converters[n], m.groups[n])]]

(***************************************************************************)
(* The Router: its tables, and the result of the last call.                *)
(***************************************************************************)
VARIABLES
    static_routes,   \* Router.static_routes: path -> Route
    dynamic_routes,  \* Router.dynamic_routes: list of Route
    endpoints,       \* Router.endpoints: endpoint name -> Route
    last             \* the last call made, its arguments and its outcome

vars == <<static_routes, dynamic_routes, endpoints, last>>

tables == <<static_routes, dynamic_routes, endpoints>>

\* `x in list`
InList(x, list) == \E i \in 1..Len(list) : list[i] = x

\* an argument left out of a call
None == "None"

GET == "GET"

POST == "POST"

Methods == {GET, POST}

\* The handlers: functions, told apart by name (handler.__name__).  The k-th
\* function an application registers is HandlerNames[k].
HandlerNames == <<"h1", "h2", "h3", "h4", "h5">>

\* the Route objects the router holds
Routes ==
    {static_routes[p] : p \in DOMAIN static_routes}
        \cup {dynamic_routes[i] : i \in 1..Len(dynamic_routes)}

(***************************************************************************)
(* Router.resolve                                                          *)
(***************************************************************************)
Ok(handler, params) == [kind |-> "ok", handler |-> handler, params |-> params]

NotFound == [kind |-> "NotFound"]

MethodNotAllowed == [kind |-> "MethodNotAllowed"]

\* a static hit that reports every failure as NotFound
StaticOutcomeNotFound(route, method) ==
    IF InList(method, route.methods) THEN Ok(route.handler, NoParams) ELSE NotFound

\* lines 158-161: the static route found for the path decides
StaticOutcome(route, method) ==
    IF InList(method, route.methods)
    THEN Ok(route.handler, NoParams)
    ELSE MethodNotAllowed

\* a scan that gives up at the first route that accepts the method and
\* rejects the path
RECURSIVE ScanStopsAtMismatch(_, _, _, _)
ScanStopsAtMismatch(routes, i, path, method) ==
    IF i > Len(routes) THEN NotFound
    ELSE IF ~InList(method, routes[i].methods)
    THEN ScanStopsAtMismatch(routes, i + 1, path, method)
    ELSE LET m == Match(routes[i], path)
         IN  IF m.ok THEN Ok(routes[i].handler, m.params) ELSE NotFound

\* a scan from the last registered route to the first
RECURSIVE ScanLastFirst(_, _, _, _)
ScanLastFirst(routes, i, path, method) ==
    LET j == Len(routes) + 1 - i
    IN  IF i > Len(routes) THEN NotFound
        ELSE IF ~InList(method, routes[j].methods)
        THEN ScanLastFirst(routes, i + 1, path, method)
        ELSE LET m == Match(routes[j], path)
             IN  IF m.ok THEN Ok(routes[j].handler, m.params)
                 ELSE ScanLastFirst(routes, i + 1, path, method)

\* a scan that reports a structural match on a route of another method
RECURSIVE ScanMethodAware(_, _, _, _)
ScanMethodAware(routes, i, path, method) ==
    IF i > Len(routes) THEN NotFound
    ELSE LET m == Match(routes[i], path)
         IN  IF m.ok /\ InList(method, routes[i].methods)
             THEN Ok(routes[i].handler, m.params)
             ELSE IF m.ok THEN MethodNotAllowed
             ELSE ScanMethodAware(routes, i + 1, path, method)

\* lines 164-171: the loop over dynamic_routes from routes[i] on
RECURSIVE ScanDynamic(_, _, _, _)
ScanDynamic(routes, i, path, method) ==
    IF i > Len(routes) THEN NotFound
    ELSE IF ~InList(method, routes[i].methods)
    THEN ScanDynamic(routes, i + 1, path, method)
    ELSE LET m == Match(routes[i], path)
         IN  IF m.ok THEN Ok(routes[i].handler, m.params)
             ELSE ScanDynamic(routes, i + 1, path, method)

\* a resolve that scans the dynamic routes before the static table
ResolveDynamicFirst(path, method) ==
    LET d == ScanDynamic(dynamic_routes, 1, path, method)
    IN  IF d.kind = "ok" THEN d
        ELSE IF path \in DOMAIN static_routes
        THEN StaticOutcome(static_routes[path], method)
        ELSE NotFound

\* Router.resolve on the current tables
ResolveOp(path, method) ==
    IF path \in DOMAIN static_routes
    THEN StaticOutcome(static_routes[path], method)
    ELSE ScanDynamic(dynamic_routes, 1, path, method)

(***************************************************************************)
(* Router.url_for                                                          *)
(***************************************************************************)
\* str.replace(old, new): every non-overlapping occurrence, left to right
RECURSIVE ReplaceFrom(_, _, _, _)
ReplaceFrom(s, old, new, i) ==
    IF i > Len(s) THEN <<>>
    ELSE IF OccursAt(s, old, i)
    THEN new \o ReplaceFrom(s, old, new, i + Len(old))
    ELSE <<s[i]>> \o ReplaceFrom(s, old, new, i + 1)

Replace(s, old, new) == ReplaceFrom(s, old, new, 1)

\* f"<{type_name}:{param_name}>"
TokenText(type_name, param_name) ==
    <<"<">> \o type_name \o <<":">> \o param_name \o <<">">>

\* lines 190-194: the first kind of TYPE_CONVERTERS whose token for the
\* parameter occurs in the path is replaced by the value
SubstituteParam(path, param_name, value) ==
    LET hit == {k \in 1..Len(ConverterKinds) :
                   Contains(path, TokenText(ConverterKinds[k], param_name))}
    IN  IF hit = {} THEN path
        ELSE LET k == CHOOSE k \in hit : \A l \in hit : k <= l
             IN  Replace(path, TokenText(ConverterKinds[k], param_name), value)

UrlOk(url) == [kind |-> "ok", url |-> url]

ValueError == [kind |-> "ValueError"]

\* a loop that returns after the first parameter
SubstituteFirstOnly(path, names, i, params) ==
    IF i > Len(names) THEN UrlOk(path)
    ELSE IF names[i] \notin DOMAIN params THEN ValueError
    ELSE UrlOk(SubstituteParam(path, names[i], PyStr(params[names[i]])))

\* lines 186-194: the loop over route.param_names from names[i] on
RECURSIVE SubstituteAll(_, _, _, _)
SubstituteAll(path, names, i, params) ==
    IF i > Len(names) THEN UrlOk(path)
    ELSE IF names[i] \notin DOMAIN params THEN ValueError
    ELSE SubstituteAll(SubstituteParam(path, names[i], PyStr(params[names[i]])),
                       names, i + 1, params)

\* Router.url_for on the current tables; params maps the names of the
\* keyword arguments to their values
UrlForOp(endpoint, params) ==
    IF endpoint \notin DOMAIN endpoints THEN ValueError
    ELSE LET route == endpoints[endpoint]
         IN  IF route.is_static THEN UrlOk(route.path)
             ELSE SubstituteAll(route.path, route.param_names, 1, params)

(***************************************************************************)
(* Router.add_route                                                        *)
(***************************************************************************)
\* methods defaults to ["GET"]
MethodsOrDefault(methods) == IF methods = None THEN <<GET>> ELSE methods

\* endpoint defaults to handler.__name__
EndpointOrDefault(endpoint, handler) == IF endpoint = None THEN handler ELSE endpoint

\* the functions an application has at hand for its next registration: those
\* it registered and one more
HandlersAtHand ==
    {HandlerNames[k] : k \in 1..(Cardinality(DOMAIN endpoints) + 1)}

\* self.static_routes[path] = route
StoreStatic(route) ==
    [p \in DOMAIN static_routes \cup {route.path} |->
        IF p = route.path THEN route ELSE static_routes[p]]

\* a duplicate check that lets a second registration of an endpoint through
EndpointTakenNever(endpoint) == FALSE

\* endpoint in self.endpoints
EndpointTaken(endpoint) == endpoint \in DOMAIN endpoints

\* add_route(path, handler, methods, endpoint), the whole call: the duplicate
\* check, Route(...), the store into one table and into endpoints
AddRoute(path, handler, methods, endpoint) ==
    LET ms == MethodsOrDefault(methods)
        ep == EndpointOrDefault(endpoint, handler)
        route == NewRoute(path, handler, ms, ep)
    IN  IF EndpointTaken(ep)
        THEN /\ last' = [op |-> "add_route", path |-> path, endpoint |-> ep,
                         raised |-> "ValueError"]
             /\ UNCHANGED tables
        ELSE IF RouteRaises(path)
        THEN /\ last' = [op |-> "add_route", path |-> path, endpoint |-> ep,
                         raised |-> "re.error"]
             /\ UNCHANGED tables
        ELSE /\ static_routes' =
                    IF route.is_static THEN StoreStatic(route) ELSE static_routes
             /\ dynamic_routes' =
                    IF route.is_static THEN dynamic_routes
                    ELSE Append(dynamic_routes, route)
             /\ endpoints' = [e \in DOMAIN endpoints \cup {ep} |->
                                IF e = ep THEN route ELSE endpoints[e]]
             /\ last' = [op |-> "add_route", path |-> path, endpoint |-> ep,
                         raised |-> "none"]

\* a call of Router.resolve
Resolve(path, method) ==
    /\ last' = [op |-> "resolve", path |-> path, method |-> method,
                result |-> ResolveOp(path, method)]
    /\ UNCHANGED tables

\* a call of Router.url_for
UrlFor(endpoint, params) ==
    /\ last' = [op |-> "url_for", endpoint |-> endpoint, params |-> params,
                result |-> UrlForOp(endpoint, params)]
    /\ UNCHANGED tables

\* Router.__init__
Init ==
    /\ static_routes = [p \in {} |-> None]
    /\ dynamic_routes = <<>>
    /\ endpoints = [e \in {} |-> None]
    /\ last = [op |-> "init"]

(***************************************************************************)
(* The routing specification: registrations of static and overlapping      *)
(* dynamic patterns, and lookups.                                          *)
(***************************************************************************)
\* "/"
P_root == <<"/">>

\* "/u/5"
P_u5 == <<"/", "u", "/", "5">>

\* "/u/<int:a>"
P_u_int == <<"/", "u", "/", "<", "i", "n", "t", ":", "a", ">">>

\* "/u/<str:b>"
P_u_str == <<"/", "u", "/", "<", "s", "t", "r", ":", "b", ">">>

RoutePatterns == {P_root, P_u5, P_u_int, P_u_str}

\* the methods arguments of the registrations
MethodArgs == {None, <<GET, POST>>}

\* the request paths looked up: "/", "/u/5", "/u/-12", "/u/ab", "/u/5/x", "/u/-", "/x"
ProbePaths ==
    {<<"/">>,
     <<"/", "u", "/", "5">>,
     <<"/", "u", "/", "-", "1", "2">>,
     <<"/", "u", "/", "a", "b">>,
     <<"/", "u", "/", "5", "/", "x">>,
     <<"/", "u", "/", "-">>,
     <<"/", "x">>}

\* A registration through the decorator (Router.route with the endpoint left
\* out): of a function not yet registered while fewer than maxRoutes routes
\* are registered, or of one registered before, which fails.
Register(patterns, methodArgs, maxRoutes) ==
    \E path \in patterns, handler \in HandlersAtHand, methods \in methodArgs :
        /\ Cardinality(DOMAIN endpoints) < maxRoutes
              \/ EndpointOrDefault(None, handler) \in DOMAIN endpoints
        /\ AddRoute(path, handler, methods, None)

\* a lookup of one of the request paths with one of the methods
Lookup(paths) ==
    \E path \in paths, method \in Methods : Resolve(path, method)

Next ==
    \/ Register(RoutePatterns, MethodArgs, MaxRoutes)
    \/ Lookup(ProbePaths)

Spec == Init /\ [][Next]_vars

(***************************************************************************)
(* Properties of resolve and add_route, checked under Spec.                *)
(***************************************************************************)
\* the position of a route's registration among the registrations: handlers
\* are handed out in the order of HandlerNames
RegIndex(route) == CHOOSE k \in 1..Len(HandlerNames) : HandlerNames[k] = route.handler

\* the dynamic routes that accept the method and match the path
Candidates(path, method) ==
    {i \in 1..Len(dynamic_routes) :
        /\ InList(method, dynamic_routes[i].methods)
        /\ Match(dynamic_routes[i], path).ok}

\* C1: for a path that is a key of static_routes, resolve returns (the
\* handler of the route stored for the path, no params) if and only if the
\* method is one of that route's methods; for every other method it raises
\* MethodNotAllowed, and it never raises NotFound.
C1_StaticResolve ==
    (last.op = "resolve" /\ last.path \in DOMAIN static_routes) =>
        LET r == static_routes[last.path]
        IN  /\ (\E i \in 1..Len(r.methods) : r.methods[i] = last.method)
                 <=> (last.result = [kind |-> "ok", handler |-> r.handler,
                                     params |-> NoParams])
            /\ (\A i \in 1..Len(r.methods) : r.methods[i] # last.method)
                 => last.result.kind = "MethodNotAllowed"
            /\ last.result.kind # "NotFound"

\* C1's case: a static path looked up with a method its route does not list
C1_Witness ==
    /\ last.op = "resolve"
    /\ last.path \in DOMAIN static_routes
    /\ ~InList(last.method, static_routes[last.path].methods)
    /\ last.result.kind = "MethodNotAllowed"

\* C2: among the dynamic routes that accept the method and match the path,
\* resolve returns the handler and the params of the one registered first,
\* whatever static registrations came before, between or after them (for a
\* path the static table does not decide).
C2_FirstRegisteredWins ==
    (last.op = "resolve" /\ last.path \notin DOMAIN static_routes) =>
        \A i \in Candidates(last.path, last.method) :
            (\A j \in Candidates(last.path, last.method) :
                RegIndex(dynamic_routes[i]) <= RegIndex(dynamic_routes[j]))
            => /\ last.result.kind = "ok"
               /\ last.result.handler = dynamic_routes[i].handler
               /\ last.result.params = Match(dynamic_routes[i], last.path).params

\* C2's case: two dynamic routes accept the method and match the path with
\* different params, and a static route was registered between them
C2_Witness ==
    /\ last.op = "resolve"
    /\ last.path \notin DOMAIN static_routes
    /\ \E i, j \in Candidates(last.path, last.method) :
          /\ i < j
          /\ Match(dynamic_routes[i], last.path).params
                # Match(dynamic_routes[j], last.path).params
          /\ \E p \in DOMAIN static_routes :
                /\ RegIndex(dynamic_routes[i]) < RegIndex(static_routes[p])
                /\ RegIndex(static_routes[p]) < RegIndex(dynamic_routes[j])
    /\ last.result.kind = "ok"

\* C3: when the path equals a registered static pattern, the static route
\* decides: no dynamic route's handler is returned, and a method the static
\* route rejects raises MethodNotAllowed even if a dynamic route that accepts
\* the method matches the path.
C3_StaticBeforeDynamic ==
    (last.op = "resolve" /\ last.path \in DOMAIN static_routes) =>
        /\ \A i \in 1..Len(dynamic_routes) :
              ~(last.result.kind = "ok"
                  /\ last.result.handler = dynamic_routes[i].handler)
        /\ ~InList(last.method, static_routes[last.path].methods)
              => last.result.kind = "MethodNotAllowed"

\* C3's case: the static route rejects the method, a dynamic route registered
\* before it accepts the method and matches the path
C3_Witness ==
    /\ last.op = "resolve"
    /\ last.path \in DOMAIN static_routes
    /\ ~InList(last.method, static_routes[last.path].methods)
    /\ \E i \in Candidates(last.path, last.method) :
          RegIndex(dynamic_routes[i]) < RegIndex(static_routes[last.path])
    /\ last.result.kind = "MethodNotAllowed"

\* an optionally "-"-signed, non-empty, all-digit string
SignedDigits(s) ==
    LET body == IF Len(s) > 0 /\ s[1] = "-" THEN Tail(s) ELSE s
    IN  Len(body) > 0 /\ \A i \in 1..Len(body) : body[i] \in DigitSet

\* the integer a signed digit string denotes, by place value from the right
RECURSIVE PlaceValue(_)
PlaceValue(s) ==
    IF Len(s) = 0 THEN 0
    ELSE PlaceValue(SubSeq(s, 1, Len(s) - 1)) * 10
            + (CHOOSE d \in 0..9 : Digits[d + 1] = s[Len(s)])

Denotes(s) == IF s[1] = "-" THEN 0 - PlaceValue(Tail(s)) ELSE PlaceValue(s)

\* the text of the path before a dynamic pattern's last token, for a pattern
\* of one parameter that is its last path segment: "/u/" of "/u/<int:a>"
OneSegmentParam(route) ==
    LET t == CHOOSE i \in 1..Len(route.path) : route.path[i] = "<"
    IN  /\ Len(route.param_names) = 1
        /\ TokenAt(route.path, t).ok
        /\ TokenAt(route.path, t).next = Len(route.path) + 1
        /\ t > 1 /\ route.path[t - 1] = "/"
        /\ \A i \in 1..(t - 1) : route.path[i] \notin {"<", "."}

LiteralPrefix(route) ==
    SubSeq(route.path, 1, (CHOOSE i \in 1..Len(route.path) : route.path[i] = "<") - 1)

\* the path's text in the place of the route's parameter segment, when the
\* path starts with the route's literal text
UnderPrefix(route, path) ==
    /\ Len(path) >= Len(LiteralPrefix(route))
    /\ SubSeq(path, 1, Len(LiteralPrefix(route))) = LiteralPrefix(route)

Segment(route, path) == SubSeq(path, Len(LiteralPrefix(route)) + 1, Len(path))

\* C4: for a dynamic route with an int parameter (here: as its one, last
\* segment) that the scan reaches for the method, a path whose segment is an
\* optionally "-"-signed non-empty digit string resolves to the route's
\* handler with the parameter as that integer, not a string; a segment with
\* any other content is rejected by the route, and resolve raises NotFound if
\* no later route matches.  The paths of SpecPat include a segment of digits
\* that ends in a newline.
C4_IntParameter ==
    (last.op = "resolve" /\ last.path \notin DOMAIN static_routes) =>
        \A i \in 1..Len(dynamic_routes) :
            LET r == dynamic_routes[i]
                name == r.param_names[1]
                seg == Segment(r, last.path)
            IN  ( /\ OneSegmentParam(r)
                  /\ r.converters[name] = K_int
                  /\ InList(last.method, r.methods)
                  /\ UnderPrefix(r, last.path)
                  /\ \A j \in 1..(i - 1) : j \notin Candidates(last.path, last.method) )
                => /\ SignedDigits(seg) =>
                        /\ last.result.kind = "ok"
                        /\ last.result.handler = r.handler
                        /\ DOMAIN last.result.params = {name}
                        /\ DOMAIN last.result.params[name] = {"int"}
                        /\ last.result.params[name].int = Denotes(seg)
                   /\ ~SignedDigits(seg) =>
                        /\ ~(last.result.kind = "ok" /\ last.result.handler = r.handler)
                        /\ (\A j \in (i + 1)..Len(dynamic_routes) :
                               j \notin Candidates(last.path, last.method))
                             => last.result.kind = "NotFound"

\* C4's case: a negative two-digit segment resolved to an integer
C4_Witness ==
    /\ last.op = "resolve"
    /\ last.result.kind = "ok"
    /\ \E n \in DOMAIN last.result.params : last.result.params[n] = [int |-> 0 - 12]

\* C5: resolve ends in exactly one of handler+params, MethodNotAllowed and
\* NotFound, and in NotFound exactly when the path is no key of static_routes
\* and no dynamic route that accepts the method matches the path; a path
\* that matches dynamic routes of other methods only is NotFound, never
\* MethodNotAllowed.
C5_NotFoundExactly ==
    last.op = "resolve" =>
        /\ last.result.kind \in {"ok", "MethodNotAllowed", "NotFound"}
        /\ last.result.kind = "NotFound"
              <=> /\ last.path \notin DOMAIN static_routes
                  /\ \A i \in 1..Len(dynamic_routes) :
                        ~(InList(last.method, dynamic_routes[i].methods)
                            /\ Match(dynamic_routes[i], last.path).ok)
        /\ last.path \notin DOMAIN static_routes
              => last.result.kind # "MethodNotAllowed"

\* C5's case: the path matches a dynamic route that does not accept the
\* method, and no route that does
C5_Witness ==
    /\ last.op = "resolve"
    /\ last.path \notin DOMAIN static_routes
    /\ \E i \in 1..Len(dynamic_routes) :
          /\ Match(dynamic_routes[i], last.path).ok
          /\ ~InList(last.method, dynamic_routes[i].methods)
    /\ last.result.kind = "NotFound"

\* C6: a call of add_route with an endpoint name already in endpoints raises
\* ValueError and leaves static_routes, dynamic_routes and endpoints as they
\* were, for a static and for a dynamic pattern.
C6_DuplicateEndpoint ==
    [][ (last'.op = "add_route" /\ last'.endpoint \in DOMAIN endpoints)
          => /\ last'.raised = "ValueError"
             /\ static_routes' = static_routes
             /\ dynamic_routes' = dynamic_routes
             /\ endpoints' = endpoints ]_vars

\* C6's case: a registration of a dynamic pattern under a taken endpoint
\* name has failed, with routes in both tables
C6_Witness ==
    /\ last.op = "add_route"
    /\ last.raised = "ValueError"
    /\ ~IsStatic(last.path)
    /\ static_routes # <<>>
    /\ dynamic_routes # <<>>

\* C7: every Route that is a value of endpoints is in exactly one of
\* static_routes and dynamic_routes, and every Route of static_routes or
\* dynamic_routes is the value of exactly one endpoint, after any sequence
\* of add_route calls.
C7_EveryRouteInOneTable ==
    /\ \A e \in DOMAIN endpoints :
          LET inStatic == Cardinality({p \in DOMAIN static_routes :
                                          static_routes[p] = endpoints[e]})
              inDynamic == Cardinality({i \in 1..Len(dynamic_routes) :
                                          dynamic_routes[i] = endpoints[e]})
          IN  inStatic + inDynamic = 1
    /\ \A r \in Routes :
          Cardinality({e \in DOMAIN endpoints : endpoints[e] = r}) = 1

(***************************************************************************)
(* The URL-generation specification: registrations of patterns with one    *)
(* and two parameters of every kind, and calls of url_for.                 *)
(***************************************************************************)
\* "/u/7"
U_u7 == <<"/", "u", "/", "7">>

\* "/u/<int:a>"
U_u_int == <<"/", "u", "/", "<", "i", "n", "t", ":", "a", ">">>

\* "/<str:a>/<int:b>"
U_s_i == <<"/", "<", "s", "t", "r", ":", "a", ">", "/", "<", "i", "n", "t", ":", "b", ">">>

\* "/<str:a><str:b>"
U_ss == <<"/", "<", "s", "t", "r", ":", "a", ">", "<", "s", "t", "r", ":", "b", ">">>

\* "/f/<path:a>"
U_f_path == <<"/", "f", "/", "<", "p", "a", "t", "h", ":", "a", ">">>

\* "/<x:a>"
U_x == <<"/", "<", "x", ":", "a", ">">>

UrlPatterns == {U_u7, U_u_int, U_s_i, U_ss, U_f_path, U_x}

\* every route of this specification accepts both methods
UrlMethodArgs == {<<GET, POST>>}

N_a == <<"a">>

N_b == <<"b">>

\* the values passed for a: 7, "x", "x/y"
AValues == {IntV(7), StrV(<<"x">>), StrV(<<"x", "/", "y">>)}

\* the values passed for b: -12, "xy"
BValues == {IntV(0 - 12), StrV(<<"x", "y">>)}

\* the keyword arguments of the url_for calls: a and b, each passed or not
ParamDicts ==
    {NoParams}
        \cup {[n \in {N_a} |-> v] : v \in AValues}
        \cup {[n \in {N_b} |-> w] : w \in BValues}
        \cup {[n \in {N_a, N_b} |-> IF n = N_a THEN v ELSE w] :
                 v \in AValues, w \in BValues}

Generate ==
    \E endpoint \in HandlersAtHand, params \in ParamDicts : UrlFor(endpoint, params)

NextUrl ==
    \/ Register(UrlPatterns, UrlMethodArgs, MaxUrlRoutes)
    \/ Generate

SpecUrl == Init /\ [][NextUrl]_vars

\* the positions of a pattern's parameter tokens
TokenStarts(path) == {i \in 1..Len(path) : TokenAt(path, i).ok}

\* A pattern whose URLs can be read back in one way only: every kind is one
\* of str, int and path, at most one parameter is a path, between any two
\* tokens the literal text holds a "/", and no literal character is special
\* to re.
ReadsBackUniquely(path) ==
    LET ts == TokenStarts(path)
        inToken(k) == \E i \in ts : i <= k /\ k < TokenAt(path, i).next
    IN  /\ \A i \in ts : TokenAt(path, i).type_name \in {K_str, K_int, K_path}
        /\ Cardinality({i \in ts : TokenAt(path, i).type_name = K_path}) <= 1
        /\ \A i, j \in ts :
              i < j => \E k \in TokenAt(path, i).next..(j - 1) : path[k] = "/"
        /\ \A k \in 1..Len(path) : inToken(k) \/ path[k] # "."

\* a value of the kind's own type and text: an int for int; for str a
\* non-empty text without "/", for path a non-empty text; no "<" in either
OfKind(kind, v) ==
    IF kind = K_int THEN IsIntV(v)
    ELSE /\ IsStrV(v)
         /\ Len(v.str) > 0
         /\ \A i \in 1..Len(v.str) : v.str[i] # "<"
         /\ kind = K_path \/ \A i \in 1..Len(v.str) : v.str[i] # "/"

\* url_for was called for a dynamic route with exactly the route's
\* parameters, each of its kind, and the route is the first match of the URL
RoundTripCase ==
    /\ last.op = "url_for"
    /\ last.endpoint \in DOMAIN endpoints
    /\ ~endpoints[last.endpoint].is_static
    /\ LET r == endpoints[last.endpoint]
       IN  /\ DOMAIN last.params = {r.param_names[i] : i \in 1..Len(r.param_names)}
           /\ \A n \in DOMAIN last.params : OfKind(r.converters[n], last.params[n])
           /\ \A i \in TokenStarts(r.path) :
                 TokenAt(r.path, i).type_name \in {K_str, K_int, K_path}
           /\ last.result.kind = "ok"
           /\ last.result.url \notin DOMAIN static_routes
           /\ \A j \in 1..Len(dynamic_routes) :
                 RegIndex(dynamic_routes[j]) < RegIndex(r)
                    => ~Match(dynamic_routes[j], last.result.url).ok

\* resolve gives back the route's handler and the mapping passed to url_for
RoundTrips ==
    LET r == endpoints[last.endpoint]
    IN  \A k \in 1..Len(r.methods) :
            ResolveOp(last.result.url, r.methods[k])
                = [kind |-> "ok", handler |-> r.handler, params |-> last.params]

\* C8 as stated: url_for round-trips with resolve for any dynamic route of
\* str, int and path parameters, in any number and adjacency, that is the
\* first match of its own URLs, and any values of the right kinds.
C8_RoundTripAnyAdjacency == RoundTripCase => RoundTrips

\* C8, amended: the same for a dynamic route in whose pattern any two
\* parameter tokens are separated by literal text that holds a "/", at most
\* one parameter is a path, and the literal text has no character special to
\* re.
C8_RoundTripSeparated ==
    (RoundTripCase /\ ReadsBackUniquely(endpoints[last.endpoint].path)) => RoundTrips

\* C8's case: a URL generated for a route of two parameters, one negative
\* int, with another dynamic route registered
C8_Witness ==
    /\ RoundTripCase
    /\ ReadsBackUniquely(endpoints[last.endpoint].path)
    /\ Len(endpoints[last.endpoint].param_names) = 2
    /\ \E n \in DOMAIN last.params : last.params[n] = [int |-> 0 - 12]
    /\ Len(dynamic_routes) = 2

\* the pattern with each <kind:name> token replaced by str(params[name]) and
\* every other character kept
RECURSIVE Filled(_, _, _)
Filled(path, i, params) ==
    IF i > Len(path) THEN <<>>
    ELSE IF TokenAt(path, i).ok
    THEN PyStr(params[TokenAt(path, i).param_name])
            \o Filled(path, TokenAt(path, i).next, params)
    ELSE <<path[i]>> \o Filled(path, i + 1, params)

\* C9: for a dynamic endpoint and a call that passes all of its parameter
\* names, url_for returns the pattern with every <kind:name> token replaced
\* by the stringified value and the literal text kept, so that no token is
\* left in the URL, for every kind a registration accepts, the unrecognized
\* kinds that compile as str among them.
C9_EveryTokenSubstituted ==
    ( /\ last.op = "url_for"
      /\ last.endpoint \in DOMAIN endpoints
      /\ ~endpoints[last.endpoint].is_static
      /\ \A i \in 1..Len(endpoints[last.endpoint].param_names) :
            endpoints[last.endpoint].param_names[i] \in DOMAIN last.params )
    => /\ last.result.kind = "ok"
       /\ last.result.url = Filled(endpoints[last.endpoint].path, 1, last.params)
       /\ TokenStarts(last.result.url) = {}

(***************************************************************************)
(* The terminal dispatch stage: JsWebApp._wsgi_app_handler.                *)
(***************************************************************************)
\* what a view function does when called: it returns a Response, returns a
\* str, returns something else, or raises
HandlerReturns == {"Response", "str", "other", "raises"}

\* lines 86-99 for a handler that resolve returned: the call, the
\* normalisation of its result and start_response
CallHandler(handler, ret) ==
    IF ret = "raises"
    THEN [invoked |-> handler, status |-> None, raised |-> "HandlerError"]
    ELSE IF ret = "other"
    THEN [invoked |-> handler, status |-> None, raised |-> "TypeError"]
    ELSE [invoked |-> handler, status |-> "200", raised |-> None]

\* _wsgi_app_handler: line 84 is not inside a try, so NotFound and
\* MethodNotAllowed leave the stage as exceptions; a registered handler is a
\* function and so is true at line 85, which leaves lines 101-102 to a
\* resolve that returns no handler
DispatchOutcome(path, method, ret) ==
    LET r == ResolveOp(path, method)
    IN  IF r.kind # "ok"
        THEN [invoked |-> None, status |-> None, raised |-> r.kind]
        ELSE CallHandler(r.handler, ret)

\* one request through the terminal stage
Dispatch(path, method, ret) ==
    /\ last' = [op |-> "dispatch", path |-> path, method |-> method,
                outcome |-> DispatchOutcome(path, method, ret)]
    /\ UNCHANGED tables

\* successful registrations in one run of the dispatch specification
MaxAppRoutes == 2

AppPatterns == {P_root, P_u5, P_u_int}

\* the request paths dispatched: "/", "/u/5", "/u/ab", "/x"
AppPaths ==
    {<<"/">>, <<"/", "u", "/", "5">>, <<"/", "u", "/", "a", "b">>, <<"/", "x">>}

Serve ==
    \E path \in AppPaths, method \in Methods, ret \in HandlerReturns :
        Dispatch(path, method, ret)

NextApp ==
    \/ Register(AppPatterns, MethodArgs, MaxAppRoutes)
    \/ Serve

SpecApp == Init /\ [][NextApp]_vars

\* C10: when Router.resolve fails, the terminal stage calls no handler and
\* answers itself, 404 for NotFound and 405 for MethodNotAllowed; the
\* resolution error does not leave the stage as an exception.
C10_ResolutionErrorsAnswered ==
    (last.op = "dispatch" /\ ResolveOp(last.path, last.method).kind # "ok") =>
        /\ last.outcome.invoked = None
        /\ last.outcome.raised = None
        /\ ResolveOp(last.path, last.method).kind = "NotFound"
              => last.outcome.status = "404"
        /\ ResolveOp(last.path, last.method).kind = "MethodNotAllowed"
              => last.outcome.status = "405"

(***************************************************************************)
(* The middleware chain: middleware.py, and JsWebApp.__call__ that builds  *)
(* it.  A request is a record; a stage is an operator of the request and   *)
(* of what the application it wraps does when it is called: a record of    *)
(* the events of that call, in order, and of the exception that leaves it  *)
(* (None when it returns).  The events of the wrapped application are part *)
(* of a stage's events exactly when the stage calls it.  The stages are    *)
(* ASGI callables (scope, receive, send); JsWebApp.__call__ and            *)
(* _wsgi_app_handler are WSGI callables (environ, start_response).         *)
(***************************************************************************)
PUT == "PUT"

PATCH == "PATCH"

DELETE == "DELETE"

\* the request methods sent to the chain
RequestMethods == {GET, POST, PUT, PATCH, DELETE}

\* "application/x-www-form-urlencoded"
CT_form ==
    <<"a", "p", "p", "l", "i", "c", "a", "t", "i", "o", "n", "/", "x",
      "-", "w", "w", "w", "-", "f", "o", "r", "m", "-", "u", "r", "l", "e",
      "n", "c", "o", "d", "e", "d">>

\* "multipart/form-data"
CT_multipart ==
    <<"m", "u", "l", "t", "i", "p", "a", "r", "t", "/", "f", "o", "r",
      "m", "-", "d", "a", "t", "a">>

\* "application/json"
CT_json ==
    <<"a", "p", "p", "l", "i", "c", "a", "t", "i", "o", "n", "/", "j",
      "s", "o", "n">>

\* "; charset=utf-8", the parameter a client may add to a content type
Charset ==
    <<";", " ", "c", "h", "a", "r", "s", "e", "t", "=", "u", "t", "f",
      "-", "8">>

\* a dict without keys
EmptyDict == [k \in {} |-> None]

\* dict.get(key): None for a missing key
Get(dict, key) == IF key \in DOMAIN dict THEN dict[key] ELSE None

\* {k: v[0] for k, v in parse_qs(body).items()}: parse_qs leaves out the
\* fields whose value is blank
ParseQs(fields) ==
    [k \in {f \in DOMAIN fields : fields[f] # ""} |-> fields[k]]

\* Request.form: for a POST, PUT or PATCH the fields of the body when the
\* content type holds the urlencoded or the multipart type as a substring,
\* and an empty dict for every other method or content type
Form(req) ==
    IF req.method \in {POST, PUT, PATCH}
    THEN IF Contains(req.content_type, CT_form)
         THEN ParseQs(req.fields)
         ELSE IF Contains(req.content_type, CT_multipart)
         THEN req.fields
         ELSE EmptyDict
    ELSE EmptyDict

\* what a call of a stage did: its events and the exception leaving it
Did(events, raised) == [events |-> events, raised |-> raised]

\* `await self.app(scope, receive, send)` as the last statement of a stage
\* named s: the stage is entered, the application it wraps runs, and the
\* stage is left when that returns or raises
Delegate(s, down) ==
    Did(<<s \o ".enter">> \o down.events \o <<s \o ".exit">>, down.raised)

\* `response = ...; await response(scope, receive, send); return` in a stage
\* named s: the stage answers and the application it wraps is not called
Answer(s, response) ==
    Did(<<s \o ".enter", s \o ".send " \o response, s \o ".exit">>, None)

\* not x, for x a str or None
Falsy(x) == x = None \/ x = ""

\* what `form` is on the request object of the scope: the property of
\* Request (request.py), whose value is a dict, or a coroutine function, as
\* `await req.form()` takes it to be
FormProperty == "property"

FormCoroutine == "coroutine"

\* CSRFMiddleware.__call__.  At line 55 `req.form()` calls the value of
\* req.form: with the property of Request that is calling a dict, which
\* raises TypeError before a token is read.
CSRFStage(req, down) ==
    IF req.type # "http" THEN Delegate("csrf", down)
    ELSE IF req.method \in {POST, PUT, PATCH, DELETE}
    THEN IF req.form_is = FormProperty
         THEN Did(<<"csrf.enter", "csrf.exit">>, "TypeError")
         ELSE LET form_token == Get(Form(req), "csrf_token")
                  cookie_token == Get(req.cookies, "csrf_token")
              IN  IF Falsy(form_token) \/ Falsy(cookie_token)
                         \/ form_token # cookie_token
                  THEN Answer("csrf", "403")
                  ELSE Delegate("csrf", down)
    ELSE Delegate("csrf", down)

\* str.startswith
StartsWith(s, prefix) ==
    Len(prefix) <= Len(s) /\ SubSeq(s, 1, Len(prefix)) = prefix

\* serve_static(request_path, url_prefix, directory): a response with the
\* file of that directory, or a not-found response when there is none
ServeStatic(directory, file_exists) ==
    IF file_exists THEN "200 " \o directory ELSE "404"

\* a static-file stage that does not look at the blueprints
NoBlueprint(blueprint_statics, i, path) == 0

\* the blueprints of the list from index i on whose static_url_path is set
\* and begins the path: lines 113-114
RECURSIVE FirstBlueprint(_, _, _)
FirstBlueprint(blueprint_statics, i, path) ==
    IF i > Len(blueprint_statics) THEN 0
    ELSE IF /\ blueprint_statics[i].static_url_path # None
            /\ blueprint_statics[i].static_url_path # <<>>
            /\ StartsWith(path, blueprint_statics[i].static_url_path)
    THEN i
    ELSE FirstBlueprint(blueprint_statics, i + 1, path)

\* StaticFilesMiddleware.__call__ for the application's static_url,
\* static_dir and blueprint_statics
StaticFilesStage(cfg, req, env, down) ==
    IF req.type # "http" THEN Delegate("static", down)
    ELSE LET i == FirstBlueprint(cfg.blueprint_statics, 1, req.path)
         IN  IF i # 0
             THEN Answer("static",
                         ServeStatic(cfg.blueprint_statics[i].static_folder,
                                     env.file_exists))
             ELSE IF StartsWith(req.path, cfg.static_url)
             THEN Answer("static", ServeStatic(cfg.static_dir, env.file_exists))
             ELSE Delegate("static", down)

\* the exceptions of the model that are not subclasses of Exception:
\* asyncio.CancelledError derives from BaseException
BaseExceptions == {"CancelledError"}

\* `except Exception` catches it
IsException(raised) == raised # None /\ raised \notin BaseExceptions

\* a stage that leaves the commit out
CommitSkipped(commit_ok) == Did(<<>>, None)

\* db_session.commit(): it returns, or raises an error of the database
Commit(commit_ok) ==
    Did(<<"session.commit">>, IF commit_ok THEN None ELSE "CommitError")

\* a stage that removes the session after the commit only, without finally
DBSessionStageNoFinally(req, env, down) ==
    IF req.type # "http" THEN Delegate("session", down)
    ELSE IF down.raised # None
    THEN Did(<<"session.enter">> \o down.events
                \o (IF IsException(down.raised) THEN <<"session.rollback">> ELSE <<>>)
                \o <<"session.exit">>,
             down.raised)
    ELSE Did(<<"session.enter">> \o down.events
                \o <<"session.commit", "session.remove", "session.exit">>,
             None)

\* a stage that commits after the try statement, outside its except and
\* finally clauses
DBSessionStageCommitOutsideTry(req, env, down) ==
    IF req.type # "http" THEN Delegate("session", down)
    ELSE LET handled == IF IsException(down.raised)
                        THEN Did(<<"session.rollback">>, down.raised)
                        ELSE Did(<<>>, down.raised)
             after == IF handled.raised = None
                      THEN Commit(env.commit_ok)
                      ELSE Did(<<>>, handled.raised)
         IN  Did(<<"session.enter">> \o down.events \o handled.events
                    \o <<"session.remove">> \o after.events \o <<"session.exit">>,
                 after.raised)

\* DBSessionMiddleware.__call__: the try block (lines 149-151), the except
\* clause (152-154) and the finally clause (155-156)
DBSessionStage(req, env, down) ==
    IF req.type # "http" THEN Delegate("session", down)
    ELSE LET tried == IF down.raised = None
                      THEN Commit(env.commit_ok)
                      ELSE Did(<<>>, down.raised)
             handled == IF IsException(tried.raised)
                        THEN Did(tried.events \o <<"session.rollback">>,
                                 tried.raised)
                        ELSE tried
         IN  Did(<<"session.enter">> \o down.events \o handled.events
                    \o <<"session.remove", "session.exit">>,
                 handled.raised)

\* self.app of the innermost stage, called with (scope, receive, send): an
\* ASGI application that sends a response and returns, that raises, or
\* whose task is cancelled while it waits to send; or the bound method
\* _wsgi_app_handler(environ, start_response) that JsWebApp.__call__ wraps
\* (line 122), which does not take three arguments: the call raises
\* TypeError and the method does not run
InnerApp(env) ==
    IF env.ret = "wsgi_handler" THEN Did(<<>>, "TypeError")
    ELSE IF env.ret = "raises"
    THEN Did(<<"inner.enter", "inner.exit">>, "HandlerError")
    ELSE IF env.cancelled
    THEN Did(<<"inner.enter", "inner.exit">>, "CancelledError")
    ELSE Did(<<"inner.enter", "inner.send 200", "inner.exit">>, None)

\* a chain composed with the resource-session stage outermost
ChainSessionOutermost(cfg, req, env, inner) ==
    DBSessionStage(req, env,
        CSRFStage(req,
            StaticFilesStage(cfg, req, env, inner)))

\* JsWebApp.__call__, lines 121-125: the application wrapped by the session
\* stage, that by the static-file stage, that by the CSRF stage; and the
\* outermost called with (scope, receive, send)
Chain(cfg, req, env, inner) ==
    CSRFStage(req,
        StaticFilesStage(cfg, req, env,
            DBSessionStage(req, env, inner)))

\* JsWebApp.__call__, line 127: `handler(environ, start_response)` calls
\* CSRFMiddleware.__call__(self, scope, receive, send) with two arguments,
\* which raises TypeError before the coroutine is made: no stage is entered
Pipeline(cfg, req, env) == Did(<<>>, "TypeError")

\* the number of times e is among the events
RECURSIVE Count(_, _)
Count(events, e) ==
    IF events = <<>> THEN 0
    ELSE (IF Head(events) = e THEN 1 ELSE 0) + Count(Tail(events), e)

\* the values secrets.token_hex(32) may return
FreshTokens == {"f1", "f2"}

\* JsWebApp.__call__, lines 108-113: req.csrf_token is the csrf_token
\* cookie, or a fresh token when the cookie is None or empty
CsrfToken(cookies, fresh) ==
    LET csrf_token == Get(cookies, "csrf_token")
    IN  IF Falsy(csrf_token)
        THEN [csrf_token |-> fresh, new_csrf_token_generated |-> TRUE]
        ELSE [csrf_token |-> csrf_token, new_csrf_token_generated |-> FALSE]

\* the address of the client, "unknown" when the scope has none
ClientIp(req) == IF "client" \in DOMAIN req THEN req.client ELSE "unknown"

\* a log line that holds the tokens themselves
CsrfLogLineWithTokens(req) ==
    [method |-> req.method, path |-> req.path, client_ip |-> ClientIp(req),
     form_token_present |-> Get(Form(req), "csrf_token"),
     cookie_token_present |-> Get(req.cookies, "csrf_token")]

\* CSRFMiddleware.__call__, lines 61-67: the line logged for a request
\* that failed the validation
CsrfLogLine(req) ==
    [method |-> req.method, path |-> req.path, client_ip |-> ClientIp(req),
     form_token_present |-> ~Falsy(Get(Form(req), "csrf_token")),
     cookie_token_present |-> ~Falsy(Get(req.cookies, "csrf_token"))]

\* what the logger received during the call: the line of the CSRF stage
\* when it answered 403
Logged(req, did) ==
    IF Count(did.events, "csrf.send 403") = 1 THEN <<CsrfLogLine(req)>> ELSE <<>>

\* the chain of lines 121-125 over an application, called with a scope
\* that holds the request: what the call does from its start to its end
\* and what it logs
Called(cfg, req, env) ==
    LET did == Chain(cfg, req, env, InnerApp(env))
    IN  [op |-> "chain", cfg |-> cfg, req |-> req, env |-> env,
         did |-> did, log |-> Logged(req, did)]

\* JsWebApp.__call__(environ, start_response) for one request, with the
\* token secrets.token_hex returns if it is called: the token of the
\* request (lines 108-113), and the call of line 127.  The response of a
\* handler, which would set the cookie (lines 94-95), is never made, so
\* the call sets no cookie.
Served(cfg, req, env, fresh) ==
    LET token == CsrfToken(req.cookies, fresh)
        did == Pipeline(cfg, req, env)
    IN  [op |-> "request", cfg |-> cfg, req |-> req, env |-> env,
         did |-> did,
         csrf_token |-> token.csrf_token,
         new_csrf_token_generated |-> token.new_csrf_token_generated,
         set_cookie |-> None,
         log |-> Logged(req, did)]

\* JsWebApp.__call__(scope, receive, send), as uvicorn calls what
\* server.run is given: TypeError, as it takes (environ, start_response)
ServedAsgi == [op |-> "asgi", did |-> Did(<<>>, "TypeError")]

(***************************************************************************)
(* Calls in flight.  The stages are coroutines: a call runs until it       *)
(* awaits something that suspends it, the event loop then runs another     *)
(* task, and the call goes on when it is resumed.  `last` holds, for each  *)
(* task, the call it makes or made last and how far that call has come.    *)
(* What a call does does not depend on the other calls, so a call is kept  *)
(* as what it does from start to end and the number of its events that     *)
(* have happened.                                                          *)
(***************************************************************************)
\* the tasks of the event loop that call the chain, each one call at a time
Tasks == {"A", "B"}

\* a task that has made no call
NoRun == [op |-> "none", did |-> Did(<<>>, None)]

\* the calls of the tasks; none before the first call
InFlight ==
    IF last.op = "calls" THEN last.calls
    ELSE [c \in Tasks |-> [run |-> NoRun, pos |-> 0]]

\* the events of a stage that are the sending of its response: lines 69,
\* 116 and 122
StageSends(cfg) ==
    {"csrf.send 403", "static.send 404", "static.send 200 " \o cfg.static_dir}
    \cup {"static.send 200 " \o cfg.blueprint_statics[k].static_folder :
            k \in 1..Len(cfg.blueprint_statics)}

\* the events of the wrapped application
InnerEvents == {"inner.enter", "inner.send 200", "inner.exit"}

\* the call may be suspended between its i-th event and the next: while a
\* stage awaits the sending of its response, before and after the response
\* is out; while the CSRF stage awaits the form of a request whose form()
\* is a coroutine (line 55); and inside the wrapped application, which
\* awaits receive and send.  Nothing else in the stages is awaited but the
\* application below, and commit, rollback and remove are plain calls.
Suspends(run, i) ==
    LET events == run.did.events
    IN  /\ run.op = "chain"
        /\ i \in 1..(Len(events) - 1)
        /\ \/ events[i] \in StageSends(run.cfg)
           \/ events[i + 1] \in StageSends(run.cfg)
           \/ events[i] \in InnerEvents /\ events[i + 1] \in InnerEvents
           \/ /\ i = 1
              /\ run.req.type = "http"
              /\ run.req.method \in {POST, PUT, PATCH, DELETE}
              /\ run.req.form_is = FormCoroutine

\* where a call that has made pos events stops next: at the first place
\* after them where it may be suspended, or at its end
NextStop(run, pos) ==
    LET n == Len(run.did.events)
    IN  IF pos >= n THEN n
        ELSE CHOOSE j \in (pos + 1)..n :
                /\ j = n \/ Suspends(run, j)
                /\ \A i \in (pos + 1)..(j - 1) : ~Suspends(run, i)

\* the call of the task has ended, or the task has made none
AtRest(c) == InFlight[c].pos = Len(InFlight[c].run.did.events)

\* the calls in flight once a task has started a call, which runs to its
\* first stop
Started(c, run) ==
    [op |-> "calls",
     calls |-> [InFlight EXCEPT ![c] = [run |-> run, pos |-> NextStop(run, 0)]]]

\* the event loop resumes a suspended call, which runs to its next stop
Resume(c) ==
    /\ ~AtRest(c)
    /\ last' = [op |-> "calls",
                calls |-> [InFlight EXCEPT
                              ![c].pos = NextStop(InFlight[c].run, InFlight[c].pos)]]
    /\ UNCHANGED tables

\* a task that is at rest calls the chain
CallChain(c, cfg, req, env) ==
    /\ AtRest(c)
    /\ last' = Started(c, Called(cfg, req, env))
    /\ UNCHANGED tables

\* a task that is at rest calls the application the WSGI way:
\* JsWebApp.__call__, which awaits nothing
Handle(c, cfg, req, env) ==
    /\ AtRest(c)
    /\ \E fresh \in FreshTokens : last' = Started(c, Served(cfg, req, env, fresh))
    /\ UNCHANGED tables

\* a task that is at rest calls the application the ASGI way
HandleAsgi(c) ==
    /\ AtRest(c)
    /\ last' = Started(c, ServedAsgi)
    /\ UNCHANGED tables

\* the calls that have ended
Ended ==
    {InFlight[c].run : c \in {t \in Tasks : AtRest(t) /\ InFlight[t].run.op # "none"}}

\* the task is suspended inside the wrapped application
InsideInner(c) ==
    /\ ~AtRest(c)
    /\ InFlight[c].run.did.events[InFlight[c].pos] \in InnerEvents

(***************************************************************************)
(* The specification of the chain: calls of the chain of lines 121-125     *)
(* with a scope, and calls of the application.                             *)
(***************************************************************************)
\* successful registrations in one run of a specification of the
\* application
MaxMwRoutes == 1

MwPatterns == {P_root, P_u_int}

MwMethodArgs == {<<GET, POST>>}

\* STATIC_URL "/s" and STATIC_DIR "static"
M_static_url == <<"/", "s">>

\* register_blueprint appends the blueprints that have a static_folder: one
\* without a static_url_path, "/b" before "/b/c", and "/s/x" under the
\* application's prefix
M_blueprints ==
    << [static_url_path |-> None, static_folder |-> "d0"],
       [static_url_path |-> <<"/", "b">>, static_folder |-> "d1"],
       [static_url_path |-> <<"/", "b", "/", "c">>, static_folder |-> "d2"],
       [static_url_path |-> <<"/", "s", "/", "x">>, static_folder |-> "d3"] >>

\* the application without and with blueprints that have static files
AppConfigs ==
    {[static_url |-> M_static_url, static_dir |-> "static", blueprint_statics |-> bps] :
        bps \in {<<>>, M_blueprints}}

WithBlueprints == {cfg \in AppConfigs : cfg.blueprint_statics # <<>>}

P_x == <<"/", "x">>

P_s_a == <<"/", "s", "/", "a">>

P_s_x == <<"/", "s", "/", "x">>

P_b_c_f == <<"/", "b", "/", "c", "/", "f">>

\* the bodies sent: a form without a token, a form with the token t1 or t2,
\* a form with the token t1 whose content type names the charset, and a
\* JSON body
Bodies ==
    { [content_type |-> CT_form, fields |-> EmptyDict],
      [content_type |-> CT_form, fields |-> [csrf_token |-> "t1"]],
      [content_type |-> CT_form, fields |-> [csrf_token |-> "t2"]],
      [content_type |-> CT_form \o Charset, fields |-> [csrf_token |-> "t1"]],
      [content_type |-> CT_json, fields |-> [csrf_token |-> "t1"]] }

FormWithToken == {b \in Bodies : b.content_type = CT_form /\ b.fields = [csrf_token |-> "t1"]}

FormWithoutToken == {b \in Bodies : b.content_type = CT_form /\ b.fields = EmptyDict}

NoCookies == EmptyDict

TokenCookie == [csrf_token |-> "t1"]

\* requests: header_token is the value of the X-CSRF-Token header, form_is
\* what `form` is on the request object
RequestsOf(types, methods, paths, bodies, cookies, headers, forms) ==
    { [type |-> t, method |-> m, path |-> p,
       content_type |-> b.content_type, fields |-> b.fields,
       cookies |-> c, header_token |-> h, form_is |-> f] :
        t \in types, m \in methods, p \in paths, b \in bodies,
        c \in cookies, h \in headers, f \in forms }

\* what the surroundings do during a call: the wrapped application returns
\* a response or raises, its task is cancelled, the commit fails, the static
\* file exists
E_normal ==
    [ret |-> "Response", cancelled |-> FALSE, commit_ok |-> TRUE, file_exists |-> TRUE]

E_no_file == [E_normal EXCEPT !.file_exists = FALSE]

E_commit_fails == [E_normal EXCEPT !.commit_ok = FALSE]

E_raises == [E_normal EXCEPT !.ret = "raises"]

E_cancelled == [E_normal EXCEPT !.cancelled = TRUE]

\* the wrapped application is _wsgi_app_handler, as in JsWebApp.__call__
E_wsgi == [E_normal EXCEPT !.ret = "wsgi_handler"]

Request(c, cfgs, reqs, envs) ==
    \E cfg \in cfgs, req \in reqs, env \in envs : Handle(c, cfg, req, env)

ChainRequest(c, cfgs, reqs, envs) ==
    \E cfg \in cfgs, req \in reqs, env \in envs : CallChain(c, cfg, req, env)

\* the requests of the chain's specification: every method, body and
\* cookie, to a route and to a static file, with either kind of request
\* object; POSTs with the token in the X-CSRF-Token header; and a
\* connection that is not http
MwRequests ==
    RequestsOf({"http"}, RequestMethods, {P_root, P_s_a}, Bodies,
               {NoCookies, TokenCookie}, {None},
               {FormProperty, FormCoroutine})
    \cup RequestsOf({"http"}, {POST}, {P_root}, FormWithoutToken,
                    {NoCookies, TokenCookie}, {"t1"},
                    {FormProperty, FormCoroutine})
    \cup RequestsOf({"websocket"}, {GET, POST}, {P_root, P_s_a}, FormWithToken,
                    {NoCookies}, {None}, {FormProperty})

\* the requests of the other task: a GET that passes to the application
\* and a POST without a token, with either kind of request object
MwOtherRequests ==
    RequestsOf({"http"}, {GET, POST}, {P_root}, FormWithoutToken,
               {NoCookies}, {None}, {FormProperty, FormCoroutine})

\* the requests sent to the application itself
MwAppRequests ==
    RequestsOf({"http"}, {GET, POST}, {P_root, P_s_a}, FormWithToken,
               {NoCookies, TokenCookie}, {None}, {FormProperty})

NextMw ==
    \/ ChainRequest("A", WithBlueprints, MwRequests, {E_normal})
    \/ ChainRequest("B", WithBlueprints, MwOtherRequests, {E_normal, E_wsgi})
    \/ Request("B", WithBlueprints, MwAppRequests, {E_normal})
    \/ \E c \in Tasks : Resume(c)

SpecMw == Init /\ [][NextMw]_vars

\* the position of the first e among the events, 0 when there is none
First(events, e) ==
    IF Count(events, e) = 0 THEN 0
    ELSE CHOOSE i \in 1..Len(events) :
            events[i] = e /\ \A j \in 1..(i - 1) : events[j] # e

\* the form field csrf_token that the client sent
ClientFormToken(req) ==
    IF Contains(req.content_type, CT_form) \/ Contains(req.content_type, CT_multipart)
    THEN Get(req.fields, "csrf_token")
    ELSE None

\* the request is one the CSRF stage lets through: not a mutating method,
\* or the client's form token and the csrf_token cookie present and equal
CsrfClear(req) ==
    \/ req.method \notin {POST, PUT, PATCH, DELETE}
    \/ /\ ClientFormToken(req) # None
       /\ Get(req.cookies, "csrf_token") # None
       /\ ClientFormToken(req) = Get(req.cookies, "csrf_token")

\* the calls of the chain for an http request that have ended
HttpRequests == {k \in Ended : k.op = "chain" /\ k.req.type = "http"}

\* C11: for an http request the CSRF stage calls the stage below exactly
\* once if the method is not POST, PUT, PATCH or DELETE or the client's form
\* token and the csrf_token cookie are present and equal, and otherwise
\* sends 403 and calls no stage below; so for each of the four methods.
C11_CsrfGate ==
    \A k \in HttpRequests :
        IF CsrfClear(k.req)
        THEN /\ Count(k.did.events, "static.enter") = 1
             /\ Count(k.did.events, "csrf.send 403") = 0
        ELSE /\ Count(k.did.events, "csrf.send 403") = 1
             /\ Len(k.did.events) = 3

\* C12: a POST whose csrf_token cookie equals the token of the X-CSRF-Token
\* header, without a csrf_token form field, passes the CSRF stage: the
\* stage below is called and no 403 is sent.
C12_HeaderTokenAccepted ==
    \A k \in HttpRequests :
        ( /\ k.req.method = POST
          /\ Get(k.req.fields, "csrf_token") = None
          /\ k.req.header_token # None
          /\ k.req.header_token = Get(k.req.cookies, "csrf_token") )
        => /\ Count(k.did.events, "static.enter") = 1
           /\ Count(k.did.events, "csrf.send 403") = 0

\* the stages from the outermost to the innermost, the last being the
\* application that dispatches to the handlers
StageOrder == <<"csrf", "static", "session", "inner">>

\* in the events, the stage named inner is entered at most once, and only
\* between the entry and the exit of the stage named outer, which it leaves
\* before outer is left
Nested(events, outer, inner) ==
    /\ Count(events, inner \o ".enter") <= 1
    /\ Count(events, inner \o ".enter") = Count(events, inner \o ".exit")
    /\ Count(events, inner \o ".enter") = 1 =>
          /\ Count(events, outer \o ".enter") = 1
          /\ First(events, outer \o ".enter") < First(events, inner \o ".enter")
          /\ First(events, inner \o ".enter") < First(events, inner \o ".exit")
          /\ First(events, inner \o ".exit") < First(events, outer \o ".exit")

\* the indexes of the blueprints that registered a static URL prefix
WithPrefix(cfg) ==
    {i \in 1..Len(cfg.blueprint_statics) :
        /\ cfg.blueprint_statics[i].static_url_path # None
        /\ cfg.blueprint_statics[i].static_url_path # <<>>}

\* the path lies under a static prefix of the application: the
\* application-wide one or that of a blueprint
IsStaticUrl(cfg, path) ==
    \/ StartsWith(path, cfg.static_url)
    \/ \E i \in WithPrefix(cfg) :
          StartsWith(path, cfg.blueprint_statics[i].static_url_path)

\* C13: within one request, to the application or to its chain of stages,
\* the stages that are entered are entered in the order CSRF, static-file,
\* resource-session, dispatch and left in the reverse order: the CSRF stage
\* is entered first and left last and every other stage runs inside the
\* stage above it; a mutating request to a static URL without a valid token
\* is answered 403 by the CSRF stage and the static-file stage is not
\* entered; the dispatch is entered only after the three outer stages were.
C13_StageOrder ==
    \A k \in {e \in Ended : e.op \in {"request", "chain"}} :
        LET events == k.did.events
        IN  /\ events # <<>> =>
                  /\ events[1] = "csrf.enter"
                  /\ events[Len(events)] = "csrf.exit"
                  /\ Count(events, "csrf.enter") = 1
                  /\ Count(events, "csrf.exit") = 1
            /\ \A s \in 1..3 : Nested(events, StageOrder[s], StageOrder[s + 1])
            /\ ( /\ k.req.type = "http"
                 /\ ~CsrfClear(k.req)
                 /\ IsStaticUrl(k.cfg, k.req.path) )
               => /\ Count(events, "csrf.send 403") = 1
                  /\ Count(events, "static.enter") = 0
            /\ \A i \in 1..Len(events) :
                  events[i] = "inner.enter" =>
                      \A s \in 1..3 :
                          First(events, StageOrder[s] \o ".enter") \in 1..(i - 1)

(***************************************************************************)
(* The specification of the static-file stage: requests to routes and to   *)
(* static URLs, of an application without and with blueprints.             *)
(***************************************************************************)
P_sx == <<"/", "s", "x">>

StaticRequests ==
    RequestsOf({"http"}, {GET, POST},
               {P_root, P_u5, P_x, P_s_a, P_s_x, P_sx, P_b_c_f},
               FormWithToken, {NoCookies, TokenCookie}, {None},
               {FormProperty, FormCoroutine})

\* the requests of the other task: for a static file and for a route
StaticOtherRequests ==
    RequestsOf({"http"}, {GET}, {P_root, P_s_a}, FormWithToken,
               {NoCookies}, {None}, {FormProperty})

NextStatic ==
    \/ ChainRequest("A", AppConfigs, StaticRequests, {E_normal, E_no_file})
    \/ ChainRequest("B", AppConfigs \ WithBlueprints, StaticOtherRequests, {E_normal})
    \/ \E c \in Tasks : Resume(c)

SpecStatic == Init /\ [][NextStatic]_vars

\* the directory whose file answers a static URL: that of the first
\* blueprint, in registration order, whose prefix begins the path, and the
\* application's directory when there is none
ServingDirectory(cfg, path) ==
    LET matching == {i \in WithPrefix(cfg) :
                        StartsWith(path, cfg.blueprint_statics[i].static_url_path)}
    IN  IF matching = {} THEN cfg.static_dir
        ELSE cfg.blueprint_statics[
                 CHOOSE i \in matching : \A j \in matching : i <= j].static_folder

\* the responses of the static-file stage among the events
StaticSends(cfg, events) ==
    {i \in 1..Len(events) :
        \/ events[i] = "static.send 404"
        \/ events[i] = "static.send 200 " \o cfg.static_dir
        \/ \E k \in 1..Len(cfg.blueprint_statics) :
              events[i] = "static.send 200 " \o cfg.blueprint_statics[k].static_folder}

\* the calls for an http request that entered the static-file stage
InStatic == {k \in HttpRequests : Count(k.did.events, "static.enter") = 1}

\* C14: when the static-file stage is entered for an http request whose
\* path begins with a registered static URL prefix (of a blueprint, the
\* first in registration order, or of the application), the stage sends
\* exactly one response, the file of that prefix's directory or not-found,
\* and calls no stage below, so that the application that calls
\* Router.resolve is not entered; when no prefix begins the path, it calls
\* the stage below exactly once and sends nothing.
C14_StaticShortCircuit ==
    \A k \in InStatic :
        LET events == k.did.events
            sends == StaticSends(k.cfg, events)
        IN  IF IsStaticUrl(k.cfg, k.req.path)
            THEN /\ Cardinality(sends) = 1
                 /\ \A i \in sends :
                       events[i] = "static.send "
                           \o (IF k.env.file_exists
                               THEN "200 " \o ServingDirectory(k.cfg, k.req.path)
                               ELSE "404")
                 /\ Count(events, "session.enter") = 0
                 /\ Count(events, "inner.enter") = 0
            ELSE /\ sends = {}
                 /\ Count(events, "session.enter") = 1

\* C14's case: a path under the prefixes of two blueprints was answered
\* with the file of the one registered first, while the call of the other
\* task was suspended in the sending of a static file
C14_Witness ==
    /\ \E k \in HttpRequests :
          /\ k.req.path = P_b_c_f
          /\ Count(k.did.events, "static.send 200 d1") = 1
          /\ Count(k.did.events, "session.enter") = 0
    /\ ~AtRest("B")
    /\ InFlight["B"].run.req.path = P_s_a

(***************************************************************************)
(* The specification of the resource-session stage: requests that pass the *)
(* outer stages, around an application that returns or raises, a commit    *)
(* that fails and a task that is cancelled.                                *)
(***************************************************************************)
SessionRequests ==
    RequestsOf({"http", "websocket"}, {GET, POST, PUT},
               {P_root, P_u5, P_x, P_s_a},
               FormWithToken, {TokenCookie}, {None},
               {FormProperty, FormCoroutine})

\* the requests of the other task: a GET and a POST that pass to the
\* application
SessionOtherRequests ==
    RequestsOf({"http"}, {GET, POST}, {P_root}, FormWithToken,
               {TokenCookie}, {None}, {FormCoroutine})

NextSession ==
    \/ ChainRequest("A", WithBlueprints, SessionRequests,
                    {E_normal, E_commit_fails, E_raises, E_cancelled, E_wsgi})
    \/ ChainRequest("B", WithBlueprints, SessionOtherRequests,
                    {E_normal, E_commit_fails})
    \/ \E c \in Tasks : Resume(c)

SpecSession == Init /\ [][NextSession]_vars

\* the calls for an http request that entered the resource-session stage
InSession == {k \in HttpRequests : Count(k.did.events, "session.enter") = 1}

\* what the application inside the resource-session stage did for the
\* request
Inner(k) == InnerApp(k.env)

\* C15: when the inner stages return normally for an http request and the
\* commit succeeds, the resource-session stage calls commit exactly once,
\* after the inner call has finished, and does not call rollback.
C15_CommitOnReturn ==
    \A k \in InSession :
        (Inner(k).raised = None /\ k.env.commit_ok) =>
            /\ Count(k.did.events, "session.commit") = 1
            /\ First(k.did.events, "inner.exit")
                  < First(k.did.events, "session.commit")
            /\ First(k.did.events, "inner.exit") > 0
            /\ Count(k.did.events, "session.rollback") = 0
            /\ k.did.raised = None

\* C15's case: the application inside sent its response and returned, and
\* the commit followed, while the call of the other task was suspended
\* inside the application
C15_Witness ==
    /\ \E k \in InSession :
          /\ Inner(k).raised = None
          /\ k.env.commit_ok
          /\ Count(k.did.events, "inner.send 200") = 1
          /\ Count(k.did.events, "session.commit") = 1
    /\ \E c \in Tasks : InsideInner(c)

\* C16: whenever a failure leaves the inner stages (an exception of the
\* handler, a resolution error, or the cancellation of the request), the
\* resource-session stage calls rollback, does not call commit, and the same
\* failure leaves the stage.
C16_RollbackOnFailure ==
    \A k \in InSession :
        Inner(k).raised # None =>
            /\ Count(k.did.events, "session.rollback") = 1
            /\ Count(k.did.events, "session.commit") = 0
            /\ k.did.raised = Inner(k).raised

\* the session operations among the events
SessionOps(events) ==
    {i \in 1..Len(events) :
        events[i] \in {"session.commit", "session.rollback", "session.remove"}}

\* C17: for every http request that enters the resource-session stage,
\* remove is called exactly once on every exit path (return, exception,
\* cancellation) and is the last session operation, after the inner call,
\* when the application inside was entered, and after the commit or
\* rollback of the request.
C17_RemoveAlways ==
    \A k \in InSession :
        LET events == k.did.events
        IN  /\ Count(events, "session.remove") = 1
            /\ \A i \in SessionOps(events) : i <= First(events, "session.remove")
            /\ Count(events, "inner.enter") = 1 =>
                  First(events, "inner.exit") \in 1..(First(events, "session.remove") - 1)

\* C17's case: the request was cancelled inside the stage and the session
\* was removed
C17_Witness ==
    \E k \in InSession :
        /\ k.did.raised = "CancelledError"
        /\ Count(k.did.events, "session.remove") = 1

(***************************************************************************)
(* The security-headers stage: SecurityHeadersMiddleware.  A header name   *)
(* is a sequence of characters, a header a pair of a name and a value, a   *)
(* dict of headers a sequence of pairs with distinct names, in the order   *)
(* of insertion.                                                           *)
(***************************************************************************)
UpperLetters ==
    <<"A", "B", "C", "D", "E", "F", "G", "H", "I", "J", "K", "L", "M",
      "N", "O", "P", "Q", "R", "S", "T", "U", "V", "W", "X", "Y", "Z">>

LowerLetters ==
    <<"a", "b", "c", "d", "e", "f", "g", "h", "i", "j", "k", "l", "m",
      "n", "o", "p", "q", "r", "s", "t", "u", "v", "w", "x", "y", "z">>

\* the lower-case letter of every upper-case letter
ToLower ==
    [c \in {UpperLetters[i] : i \in 1..26} |->
        LowerLetters[CHOOSE i \in 1..26 : UpperLetters[i] = c]]

\* str.lower of one character
LowerChar(c) == IF c \in DOMAIN ToLower THEN ToLower[c] ELSE c

\* str.lower
Lower(name) == [i \in 1..Len(name) |-> LowerChar(name[i])]

H_XCTO == <<"x", "-", "c", "o", "n", "t", "e", "n", "t", "-", "t", "y", "p", "e", "-", "o", "p", "t", "i", "o", "n", "s">>

H_XFO == <<"x", "-", "f", "r", "a", "m", "e", "-", "o", "p", "t", "i", "o", "n", "s">>

H_XXP == <<"x", "-", "x", "s", "s", "-", "p", "r", "o", "t", "e", "c", "t", "i", "o", "n">>

H_STS == <<"s", "t", "r", "i", "c", "t", "-", "t", "r", "a", "n", "s", "p", "o", "r", "t", "-", "s", "e", "c", "u", "r", "i", "t", "y">>

H_RP == <<"r", "e", "f", "e", "r", "r", "e", "r", "-", "p", "o", "l", "i", "c", "y">>

H_CSP == <<"c", "o", "n", "t", "e", "n", "t", "-", "s", "e", "c", "u", "r", "i", "t", "y", "-", "p", "o", "l", "i", "c", "y">>

\* SecurityHeadersMiddleware.DEFAULT_HEADERS
DEFAULT_HEADERS ==
    << <<H_XCTO, "nosniff">>,
       <<H_XFO, "DENY">>,
       <<H_XXP, "1; mode=block">>,
       <<H_STS, "max-age=31536000; includeSubDomains">>,
       <<H_RP, "strict-origin-when-cross-origin">>,
       <<H_CSP, "default-src 'self'">> >>

\* the names of a sequence of headers
NamesOf(headers) == {headers[i][1] : i \in 1..Len(headers)}

\* {**a, **b}: the keys of a keep their place and take the value b gives
\* them, and the keys that only b has follow in b's order
RECURSIVE OnlyIn(_, _, _)
OnlyIn(b, i, names) ==
    IF i > Len(b) THEN <<>>
    ELSE IF b[i][1] \in names THEN OnlyIn(b, i + 1, names)
    ELSE <<b[i]>> \o OnlyIn(b, i + 1, names)

ValueIn(b, name) == b[CHOOSE i \in 1..Len(b) : b[i][1] = name][2]

Merge(a, b) ==
    [i \in 1..Len(a) |->
        IF a[i][1] \in NamesOf(b) THEN <<a[i][1], ValueIn(b, a[i][1])>> ELSE a[i]]
    \o OnlyIn(b, 1, NamesOf(a))

\* SecurityHeadersMiddleware.__init__: self.headers
ConfiguredHeaders(custom_headers) == Merge(DEFAULT_HEADERS, custom_headers)

\* a loop that appends every configured header
AppendAll(own, i, existing_header_names) == SubSeq(own, i, Len(own))

\* lines 214-216: the configured headers from index i on whose lowered name
\* is not among the names the message had
RECURSIVE AppendMissing(_, _, _)
AppendMissing(own, i, existing_header_names) ==
    IF i > Len(own) THEN <<>>
    ELSE IF Lower(own[i][1]) \notin existing_header_names
    THEN <<own[i]>> \o AppendMissing(own, i + 1, existing_header_names)
    ELSE AppendMissing(own, i + 1, existing_header_names)

\* send_wrapper (lines 206-220): the message passed on to send
SendWrapper(own, message) ==
    IF message.type = "http.response.start"
    THEN LET headers == IF "headers" \in DOMAIN message
                        THEN message.headers ELSE <<>>
             existing_header_names ==
                 {Lower(headers[i][1]) : i \in 1..Len(headers)}
             new == headers \o AppendMissing(own, 1, existing_header_names)
         IN  [k \in DOMAIN message \cup {"headers"} |->
                 IF k = "headers" THEN new ELSE message[k]]
    ELSE message

\* one message of the inner stages through the stage, and through a second
\* stage of the same configuration wrapped around the first
SendThrough(custom_headers, message) ==
    LET own == ConfiguredHeaders(custom_headers)
        once == SendWrapper(own, message)
    IN  /\ last' = [op |-> "send", custom |-> custom_headers, message |-> message,
                    once |-> once, twice |-> SendWrapper(own, once)]
        /\ UNCHANGED tables

H_XFO_title == <<"X", "-", "F", "r", "a", "m", "e", "-", "O", "p", "t", "i", "o", "n", "s">>

H_CT_title == <<"C", "o", "n", "t", "e", "n", "t", "-", "T", "y", "p", "e">>

H_server == <<"s", "e", "r", "v", "e", "r">>

\* the custom_headers given to the stage: none, a value for a default
\* name, a default name in another case, and a name of its own
CustomHeaders ==
    { <<>>,
      << <<H_XFO, "SAMEORIGIN">> >>,
      << <<H_XFO_title, "SAMEORIGIN">> >>,
      << <<H_server, "jsweb">> >> }

\* the headers a response of the inner stages may carry
InnerHeaders ==
    { <<H_CT_title, "text/html">>,
      <<H_XFO_title, "ALLOWALL">>,
      <<H_XFO, "ALLOWALL">>,
      <<H_server, "inner">>,
      <<H_CSP, "none">> }

\* headers in one response of the inner stages
MaxHeaders == 2

RECURSIVE HeaderLists(_)
HeaderLists(n) ==
    IF n = 0 THEN {<<>>}
    ELSE HeaderLists(n - 1)
         \cup {Append(l, h) : l \in {x \in HeaderLists(n - 1) : Len(x) = n - 1},
                              h \in InnerHeaders}

\* the messages the inner stages send
Messages ==
    {[type |-> "http.response.start", status |-> 200, headers |-> l] :
        l \in HeaderLists(MaxHeaders)}
    \cup {[type |-> "http.response.start", status |-> 200],
          [type |-> "http.response.body", body |-> "x"]}

Respond ==
    \E custom_headers \in CustomHeaders, message \in Messages :
        SendThrough(custom_headers, message)

NextHeaders == Respond

SpecHeaders == Init /\ [][NextHeaders]_vars

\* the headers of a message, none when it has no headers key
HeadersOf(message) ==
    IF "headers" \in DOMAIN message THEN message.headers ELSE <<>>

\* a header of that name, compared without case, is among the headers
Present(headers, name) ==
    \E i \in 1..Len(headers) : Lower(headers[i][1]) = Lower(name)

\* C18: the security-headers stage appends a configured header to the
\* response-start message only if the message of the inner stages has no
\* header of that name, compared without case; it keeps the headers of the
\* inner stages as they are and in their place and every other key of the
\* message; it leaves every other message unchanged; and a second pass
\* through the stage yields the header list of the first.
C18_HeadersOnlyIfAbsent ==
    last.op = "send" =>
        IF last.message.type = "http.response.start"
        THEN LET inner == HeadersOf(last.message)
                 out == last.once.headers
                 own == ConfiguredHeaders(last.custom)
             IN  /\ Len(out) >= Len(inner)
                 /\ SubSeq(out, 1, Len(inner)) = inner
                 /\ \A i \in (Len(inner) + 1)..Len(out) :
                       /\ \E k \in 1..Len(own) : own[k] = out[i]
                       /\ ~Present(inner, out[i][1])
                 /\ \A k \in DOMAIN last.message \ {"headers"} :
                       last.once[k] = last.message[k]
                 /\ last.twice.headers = last.once.headers
        ELSE last.once = last.message /\ last.twice = last.message

\* C18's case: the response carries X-Frame-Options in another case than
\* the configured name; that header is not added, the others are
C18_Witness ==
    /\ last.op = "send"
    /\ last.message.type = "http.response.start"
    /\ HeadersOf(last.message) = << <<H_XFO_title, "ALLOWALL">> >>
    /\ last.custom = <<>>
    /\ Len(last.once.headers) = 6

(***************************************************************************)
(* Concurrent readers of the Router.  `last` holds the calls of resolve    *)
(* and url_for in progress, one per caller, and a call advances by the     *)
(* steps of its code: a step is one lookup in a table or one iteration of  *)
(* a loop, and reads the tables as they are at that moment.  add_route     *)
(* takes no lock and tests nothing about the readers, so the steps of a   *)
(* registration come between any two steps of a call: the store into      *)
(* static_routes or dynamic_routes, and then the store into endpoints.     *)
(***************************************************************************)
Callers == {"c1", "c2"}

Idle == [pc |-> "idle"]

\* the calls in progress; none before the first call
Calls == IF last.op = "reads" THEN last.calls ELSE [c \in Callers |-> Idle]

\* the route of the call of add_route in progress, stored into its table
\* and not yet into endpoints; none when no such call is in progress
Adding == IF last.op = "reads" THEN last.adding ELSE <<>>

SetCall(c, call) ==
    last' = [op |-> "reads", calls |-> [Calls EXCEPT ![c] = call], adding |-> Adding]

\* a caller enters resolve(path, method); the call notes how many routes
\* were registered when it began
BeginResolve(c, path, method) ==
    /\ Calls[c].pc \in {"idle", "done"}
    /\ SetCall(c, [op |-> "resolve", path |-> path, method |-> method,
                   pc |-> "static", i |-> 1, result |-> None,
                   registered |-> Cardinality(DOMAIN endpoints)])
    /\ UNCHANGED tables

\* lines 158-162: the lookup in static_routes
ResolveStatic(c) ==
    LET call == Calls[c]
    IN  /\ call.pc = "static"
        /\ IF call.path \in DOMAIN static_routes
           THEN SetCall(c, [call EXCEPT !.pc = "done",
                              !.result = StaticOutcome(static_routes[call.path],
                                                       call.method)])
           ELSE SetCall(c, [call EXCEPT !.pc = "scan"])
        /\ UNCHANGED tables

\* a scan that moves the route it returns to the front of dynamic_routes
ResolveScanMovingToFront(c) ==
    LET call == Calls[c]
        i == call.i
    IN  /\ call.pc = "scan"
        /\ IF i > Len(dynamic_routes)
           THEN SetCall(c, [call EXCEPT !.pc = "done", !.result = NotFound])
                /\ UNCHANGED tables
           ELSE IF ~InList(call.method, dynamic_routes[i].methods)
           THEN SetCall(c, [call EXCEPT !.i = i + 1]) /\ UNCHANGED tables
           ELSE LET m == Match(dynamic_routes[i], call.path)
                IN  IF m.ok
                    THEN /\ SetCall(c, [call EXCEPT !.pc = "done",
                                !.result = Ok(dynamic_routes[i].handler, m.params)])
                         /\ dynamic_routes' =
                                <<dynamic_routes[i]>>
                                    \o SubSeq(dynamic_routes, 1, i - 1)
                                    \o SubSeq(dynamic_routes, i + 1, Len(dynamic_routes))
                         /\ UNCHANGED <<static_routes, endpoints>>
                    ELSE SetCall(c, [call EXCEPT !.i = i + 1]) /\ UNCHANGED tables

\* lines 164-171: one iteration of the loop over dynamic_routes, or the
\* raise after its end
ResolveScan(c) ==
    LET call == Calls[c]
        i == call.i
    IN  /\ call.pc = "scan"
        /\ IF i > Len(dynamic_routes)
           THEN SetCall(c, [call EXCEPT !.pc = "done", !.result = NotFound])
           ELSE IF ~InList(call.method, dynamic_routes[i].methods)
           THEN SetCall(c, [call EXCEPT !.i = i + 1])
           ELSE LET m == Match(dynamic_routes[i], call.path)
                IN  IF m.ok
                    THEN SetCall(c, [call EXCEPT !.pc = "done",
                                !.result = Ok(dynamic_routes[i].handler, m.params)])
                    ELSE SetCall(c, [call EXCEPT !.i = i + 1])
        /\ UNCHANGED tables

\* a caller enters url_for(endpoint, **params)
BeginUrlFor(c, endpoint, params) ==
    /\ Calls[c].pc \in {"idle", "done"}
    /\ SetCall(c, [op |-> "url_for", endpoint |-> endpoint, params |-> params,
                   pc |-> "lookup", i |-> 1, path |-> <<>>, names |-> <<>>,
                   result |-> None,
                   registered |-> Cardinality(DOMAIN endpoints)])
    /\ UNCHANGED tables

\* lines 177-184: the lookup in endpoints and the return for a static route
UrlForLookup(c) ==
    LET call == Calls[c]
    IN  /\ call.pc = "lookup"
        /\ IF call.endpoint \notin DOMAIN endpoints
           THEN SetCall(c, [call EXCEPT !.pc = "done", !.result = ValueError])
           ELSE IF endpoints[call.endpoint].is_static
           THEN SetCall(c, [call EXCEPT !.pc = "done",
                              !.result = UrlOk(endpoints[call.endpoint].path)])
           ELSE SetCall(c, [call EXCEPT !.pc = "build",
                              !.path = endpoints[call.endpoint].path,
                              !.names = endpoints[call.endpoint].param_names])
        /\ UNCHANGED tables

\* lines 186-196: one iteration of the loop over route.param_names, or the
\* return after its end
UrlForBuild(c) ==
    LET call == Calls[c]
        i == call.i
    IN  /\ call.pc = "build"
        /\ IF i > Len(call.names)
           THEN SetCall(c, [call EXCEPT !.pc = "done", !.result = UrlOk(call.path)])
           ELSE IF call.names[i] \notin DOMAIN call.params
           THEN SetCall(c, [call EXCEPT !.pc = "done", !.result = ValueError])
           ELSE SetCall(c, [call EXCEPT !.i = i + 1,
                              !.path = SubstituteParam(call.path, call.names[i],
                                           PyStr(call.params[call.names[i]]))])
        /\ UNCHANGED tables

\* successful registrations
MaxReadRoutes == 2

ReadPatterns == {P_u5, P_u_int, P_u_str}

\* the request paths resolved: "/u/5", "/u/ab"
ReadPaths == {P_u5, <<"/", "u", "/", "a", "b">>}

\* the keyword arguments given to url_for
ReadParams == {NoParams, [n \in {N_a} |-> IntV(7)]}

\* add_route, lines 131-139, while calls of resolve and url_for may be in
\* progress: the duplicate check, Route(...) and the store into
\* static_routes or dynamic_routes.  The calls in progress stay where they
\* are, and the route waits to be stored into endpoints.
AddRouteStore(path, handler, methods, endpoint) ==
    LET ms == MethodsOrDefault(methods)
        ep == EndpointOrDefault(endpoint, handler)
        route == NewRoute(path, handler, ms, ep)
    IN  /\ Adding = <<>>
        /\ IF EndpointTaken(ep)
           THEN /\ last' = [op |-> "reads", calls |-> Calls, adding |-> <<>>,
                            raised |-> "ValueError"]
                /\ UNCHANGED tables
           ELSE IF RouteRaises(path)
           THEN /\ last' = [op |-> "reads", calls |-> Calls, adding |-> <<>>,
                            raised |-> "re.error"]
                /\ UNCHANGED tables
           ELSE /\ static_routes' =
                       IF route.is_static THEN StoreStatic(route) ELSE static_routes
                /\ dynamic_routes' =
                       IF route.is_static THEN dynamic_routes
                       ELSE Append(dynamic_routes, route)
                /\ last' = [op |-> "reads", calls |-> Calls, adding |-> <<route>>]
                /\ UNCHANGED endpoints

\* add_route, line 141: self.endpoints[endpoint] = route, a statement of its
\* own after the store into the table, and the return
AddRouteEndpoint ==
    /\ Adding # <<>>
    /\ endpoints' = [e \in DOMAIN endpoints \cup {Adding[1].endpoint} |->
                       IF e = Adding[1].endpoint THEN Adding[1] ELSE endpoints[e]]
    /\ last' = [op |-> "reads", calls |-> Calls, adding |-> <<>>, raised |-> "none"]
    /\ UNCHANGED <<static_routes, dynamic_routes>>

\* the application registers a route for GET, at any time, and its call of
\* add_route goes on, at any time
RegisterDuringReads ==
    \/ \E path \in ReadPatterns, handler \in HandlersAtHand, methods \in {None} :
          /\ Cardinality(DOMAIN endpoints) < MaxReadRoutes
                \/ EndpointOrDefault(None, handler) \in DOMAIN endpoints
          /\ AddRouteStore(path, handler, methods, None)
    \/ AddRouteEndpoint

\* the calls of the one caller: every path and method, the endpoints of the
\* first two handlers
StartCall ==
    \/ \E path \in ReadPaths, method \in Methods : BeginResolve("c1", path, method)
    \/ \E endpoint \in {"h1", "h2"}, params \in ReadParams :
          BeginUrlFor("c1", endpoint, params)

\* the calls of the other caller: resolve of "/u/ab" and url_for of the
\* first handler's endpoint with a = 7
StartOtherCall ==
    \/ BeginResolve("c2", <<"/", "u", "/", "a", "b">>, GET)
    \/ BeginUrlFor("c2", "h1", [n \in {N_a} |-> IntV(7)])

StepCall ==
    \E c \in Callers :
        \/ ResolveStatic(c)
        \/ ResolveScan(c)
        \/ UrlForLookup(c)
        \/ UrlForBuild(c)

NextRead ==
    \/ RegisterDuringReads
    \/ StartCall
    \/ StartOtherCall
    \/ StepCall

SpecRead == Init /\ [][NextRead]_vars

\* what the call returns when it runs alone against the tables
Alone(call) ==
    IF call.op = "resolve" THEN ResolveOp(call.path, call.method)
    ELSE UrlForOp(call.endpoint, call.params)

\* where a call is in its code: every step of a call changes it
Progress(call) == IF call.pc = "idle" THEN <<"idle", 0>> ELSE <<call.pc, call.i>>

\* no registration is in progress and none was since the call began: every
\* successful registration adds an endpoint when it ends
NoneRegisteredSince(call) ==
    /\ Adding = <<>>
    /\ call.registered = Cardinality(DOMAIN endpoints)

\* every finished call that no registration overlapped has the result of
\* the call run alone
SameAsAlone ==
    \A c \in Callers :
        (Calls[c].pc = "done" /\ NoneRegisteredSince(Calls[c]))
            => Calls[c].result = Alone(Calls[c])

\* C19: resolve and url_for do not modify static_routes, dynamic_routes,
\* endpoints or a Route, whether they return or raise: no step of a call
\* changes the tables; and every call that began after the last
\* registration ended, interleaved with the steps of other calls, returns
\* what it returns when run alone against the same tables.
C19_ReadOnlyLookups ==
    /\ [][(/\ last'.op = "reads"
           /\ \E c \in Callers : Progress(last'.calls[c]) # Progress(Calls[c]))
              => tables' = tables]_vars
    /\ [](SameAsAlone)

\* C19's case: two calls begun after the last registration and in progress
\* at once, one of them inside the scan of the dynamic routes, the other
\* finished with a handler
C19_Witness ==
    /\ last.op = "reads"
    /\ Len(dynamic_routes) = 2
    /\ \E c, d \in Callers :
          /\ Calls[c].pc = "scan" /\ Calls[c].i = 2
          /\ NoneRegisteredSince(Calls[c])
          /\ Calls[d].pc = "done" /\ Calls[d].op = "resolve"
          /\ NoneRegisteredSince(Calls[d])
          /\ Calls[d].result.kind = "ok"

(***************************************************************************)
(* C20, checked under Spec.                                                *)
(***************************************************************************)
\* the route has one parameter of that kind as its last segment, accepts
\* the method, and the path continues the route's literal text with one
\* non-empty segment
OffersSegment(route, kind, path, method) ==
    /\ OneSegmentParam(route)
    /\ route.converters[route.param_names[1]] = kind
    /\ InList(method, route.methods)
    /\ UnderPrefix(route, path)
    /\ Segment(route, path) # <<>>
    /\ \A k \in 1..Len(Segment(route, path)) : Segment(route, path)[k] # "/"

\* C20: an int route that cannot convert the path's segment is passed over
\* without an error and the scan goes on: with '/u/<int:a>' registered
\* before a str route of the same shape, '/u/<str:b>', and no other earlier
\* route accepting the path, resolve of '/u/ab' returns the handler of the
\* str route with b = 'ab' and does not raise.
C20_FailedConversionSkipsRoute ==
    (last.op = "resolve" /\ last.path \notin DOMAIN static_routes) =>
        \A i, j \in 1..Len(dynamic_routes) :
            LET r == dynamic_routes[i]
                q == dynamic_routes[j]
            IN  ( /\ i < j
                  /\ OffersSegment(r, K_int, last.path, last.method)
                  /\ ~SignedDigits(Segment(r, last.path))
                  /\ OffersSegment(q, K_str, last.path, last.method)
                  /\ LiteralPrefix(q) = LiteralPrefix(r)
                  /\ \A k \in 1..(j - 1) :
                        k \in Candidates(last.path, last.method) =>
                            /\ OffersSegment(dynamic_routes[k], K_int,
                                             last.path, last.method)
                            /\ LiteralPrefix(dynamic_routes[k]) = LiteralPrefix(r) )
                => last.result =
                       Ok(q.handler,
                          [n \in {q.param_names[1]} |-> StrV(Segment(q, last.path))])

\* C20's case: '/u/ab' resolved with the int route registered before the
\* str route
C20_Witness ==
    /\ last.op = "resolve"
    /\ last.path = <<"/", "u", "/", "a", "b">>
    /\ Len(dynamic_routes) >= 2
    /\ dynamic_routes[1].path = P_u_int
    /\ dynamic_routes[2].path = P_u_str
    /\ last.result.kind = "ok"
    /\ last.result.handler = dynamic_routes[2].handler
    /\ last.result.params = [n \in {N_b} |-> StrV(<<"a", "b">>)]

(***************************************************************************)
(* The pattern specification: registrations of patterns whose literal text *)
(* holds "." or a bare "<", of patterns that repeat a parameter name, and  *)
(* of one static path under two method lists; lookups of paths that end    *)
(* in a newline or differ from a pattern's literal text in one character.  *)
(***************************************************************************)
MaxPatRoutes == 2

\* "/a.b/<int:a>"
Q_dot == <<"/", "a", ".", "b", "/", "<", "i", "n", "t", ":", "a", ">">>

\* "/a<b"
Q_lt == <<"/", "a", "<", "b">>

\* "/<int:a>/<str:a>"
Q_rep_kinds == <<"/", "<", "i", "n", "t", ":", "a", ">", "/", "<", "s", "t", "r", ":", "a", ">">>

\* "/<int:a>/<int:a>"
Q_rep_same == <<"/", "<", "i", "n", "t", ":", "a", ">", "/", "<", "i", "n", "t", ":", "a", ">">>

PatPatterns == {P_x, P_u_int, Q_dot, Q_lt, Q_rep_kinds, Q_rep_same}

\* methods=None (GET) and methods=["POST"]
PatMethodArgs == {None, <<POST>>}

\* "/x", "/u/5", "/u/5\n", "/u/5/x", "x/u/5", "/a.b/5", "/axb/5", "/a<b", "/5/5"
PatPaths ==
    {P_x,
     P_u5,
     <<"/", "u", "/", "5", NL>>,
     <<"/", "u", "/", "5", "/", "x">>,
     <<"x", "/", "u", "/", "5">>,
     <<"/", "a", ".", "b", "/", "5">>,
     <<"/", "a", "x", "b", "/", "5">>,
     Q_lt,
     <<"/", "5", "/", "5">>}

NextPat ==
    \/ Register(PatPatterns, PatMethodArgs, MaxPatRoutes)
    \/ Lookup(PatPaths)

SpecPat == Init /\ [][NextPat]_vars

(***************************************************************************)
(* Properties of the compiled matcher and of registration, checked under   *)
(* SpecPat.                                                                *)
(***************************************************************************)
\* the number of characters of the path a match consumed: one for each
\* element of the expression outside the groups, and each group's text
RECURSIVE Consumed(_, _, _)
Consumed(re, i, groups) ==
    IF i > Len(re) THEN 0
    ELSE (IF re[i].t = "grp" THEN Len(groups[re[i].name]) ELSE 1)
             + Consumed(re, i + 1, groups)

\* C22: a dynamic route's matcher requires a full match anchored at both
\* ends: whenever the compiled expression of a registered dynamic route
\* matches a looked-up path, the match consumed the whole path (no character
\* of the path is left after it).
C22_FullMatch ==
    last.op = "resolve" =>
        \A k \in 1..Len(dynamic_routes) :
            LET route == dynamic_routes[k]
                m == RegexMatch(route, last.path)
            IN  m.ok => Consumed(route.regex, 1, m.groups) = Len(last.path)

\* the literal text of the pattern, read from position i of the pattern and
\* position pos of the path, is in the path character for character, each
\* parameter token standing for the text its group matched
RECURSIVE LiteralsVerbatim(_, _, _, _, _)
LiteralsVerbatim(pattern, i, path, pos, groups) ==
    IF i > Len(pattern) THEN TRUE
    ELSE LET t == TokenAt(pattern, i)
         IN  IF t.ok
             THEN LiteralsVerbatim(pattern, t.next, path,
                                   pos + Len(groups[t.param_name]), groups)
             ELSE /\ pos <= Len(path)
                  /\ path[pos] = pattern[i]
                  /\ LiteralsVerbatim(pattern, i + 1, path, pos + 1, groups)

\* C23: in a dynamic pattern everything outside the <kind:name> tokens is
\* literal text matched verbatim: whenever a registered dynamic route
\* matches a looked-up path, each literal character of the pattern is in
\* the path at the corresponding position, whatever the character is.
C23_LiteralsVerbatim ==
    last.op = "resolve" =>
        \A k \in 1..Len(dynamic_routes) :
            LET route == dynamic_routes[k]
                m == RegexMatch(route, last.path)
            IN  m.ok => LiteralsVerbatim(route.path, 1, last.path, 1, m.groups)

\* the pattern uses one parameter name in two of its tokens
RepeatsName(path) ==
    LET defs == ParamDefs(path)
    IN  \E i, j \in 1..Len(defs) :
            i # j /\ defs[i].param_name = defs[j].param_name

\* the routes of the three tables
StoredRoutes ==
    {static_routes[p] : p \in DOMAIN static_routes}
        \cup {dynamic_routes[k] : k \in 1..Len(dynamic_routes)}
        \cup {endpoints[e] : e \in DOMAIN endpoints}

\* C24: add_route with a pattern that uses the same parameter name twice,
\* with equal or different kinds, is rejected at registration: the call
\* raises and leaves static_routes, dynamic_routes and endpoints as they
\* were, so no route with a repeated parameter name is ever in a table.
C24_RepeatedNameRejected ==
    /\ [][(last'.op = "add_route" /\ RepeatsName(last'.path))
             => (last'.raised # "none" /\ tables' = tables)]_vars
    /\ [](\A route \in StoredRoutes : ~RepeatsName(route.path))

\* a registration of "/<int:a>/<str:a>" by a function not registered before
\* was rejected by the compiler while another route was in the table
C24_Witness ==
    /\ last.op = "add_route"
    /\ last.path = Q_rep_kinds
    /\ RepeatsName(last.path)
    /\ last.raised = "re.error"
    /\ last.endpoint \notin DOMAIN endpoints
    /\ Len(dynamic_routes) = 1

\* C26: a route is classified static if and only if its pattern contains no
\* <type:name> parameter marker: every registered pattern without a complete
\* marker, one with a bare "<" included, is stored in static_routes, and
\* every registered pattern with a marker is stored in dynamic_routes.
C26_StaticIffNoMarker ==
    \A e \in DOMAIN endpoints :
        LET route == endpoints[e]
        IN  IF ParamDefs(route.path) = <<>>
            THEN /\ route.path \in DOMAIN static_routes
                 /\ ~InList(route, dynamic_routes)
            ELSE /\ InList(route, dynamic_routes)
                 /\ route.path \notin DOMAIN static_routes

\* the routes registered on a static path
RoutesOn(path) ==
    {route \in {endpoints[e] : e \in DOMAIN endpoints} :
        route.is_static /\ route.path = path}

\* C27: if two routes with the same static path, different endpoint names
\* and disjoint method lists are registered, then for every method of
\* either list resolve(path, method) returns the handler of the route whose
\* list holds the method: the second registration does not make the first
\* route unreachable.
C27_DisjointMethodsBothReachable ==
    (last.op = "resolve" /\ Cardinality(RoutesOn(last.path)) = 2) =>
        \A r1, r2 \in RoutesOn(last.path) :
            (/\ r1.endpoint # r2.endpoint
             /\ \A m \in Methods : ~(InList(m, r1.methods) /\ InList(m, r2.methods))
             /\ InList(last.method, r1.methods))
                => last.result = Ok(r1.handler, NoParams)

(***************************************************************************)
(* Properties of the chain's short circuits and of a failing commit.       *)
(***************************************************************************)
\* the calls that were answered by the CSRF stage or by the static-file
\* stage
ShortCircuited ==
    {k \in HttpRequests :
        \/ Count(k.did.events, "csrf.send 403") = 1
        \/ StaticSends(k.cfg, k.did.events) # {}}

\* C28: a request that is short-circuited by the CSRF stage (403) or by the
\* static-file stage never enters the resource-session stage: none of
\* commit, rollback and remove is called for it, and the application inside
\* the stages does not run.
C28_ShortCircuitSkipsSession ==
    \A k \in ShortCircuited :
        LET events == k.did.events
        IN  /\ Count(events, "session.enter") = 0
            /\ SessionOps(events) = {}
            /\ Count(events, "inner.enter") = 0
            /\ k.did.raised = None

\* C28's case: a POST to a route, whose form token is not the cookie's, was
\* answered 403 while the call of the other task was suspended inside the
\* application
C28_Witness ==
    /\ \E k \in ShortCircuited :
          /\ k.req.method = POST
          /\ k.req.path = P_root
          /\ k.req.fields = [csrf_token |-> "t2"]
          /\ k.req.cookies = TokenCookie
          /\ Count(k.did.events, "csrf.send 403") = 1
          /\ SessionOps(k.did.events) = {}
    /\ InsideInner("B")

\* the operations on the session among the events, in their order
RECURSIVE SessionCalls(_)
SessionCalls(events) ==
    IF events = <<>> THEN <<>>
    ELSE (IF Head(events) \in {"session.commit", "session.rollback", "session.remove"}
          THEN <<Head(events)>> ELSE <<>>) \o SessionCalls(Tail(events))

\* C30: if the inner stages return normally but commit itself fails, the
\* resource-session stage calls rollback, then remove, and propagates the
\* commit failure to its caller: no request leaves the stage with a failed
\* commit and neither rollback nor remove having run.
C30_FailedCommitRolledBack ==
    \A k \in InSession :
        (Inner(k).raised = None /\ ~k.env.commit_ok) =>
            /\ SessionCalls(k.did.events)
                  = <<"session.commit", "session.rollback", "session.remove">>
            /\ k.did.raised = "CommitError"

\* C30's case: the application inside sent its response and returned, the
\* commit failed and the failure left the chain
C30_Witness ==
    \E k \in InSession :
        /\ Count(k.did.events, "inner.send 200") = 1
        /\ Inner(k).raised = None
        /\ ~k.env.commit_ok
        /\ k.did.raised = "CommitError"
        /\ Count(k.did.events, "session.rollback") = 1

\* the path is the prefix itself or lies below it: the prefix ends at a
\* boundary between two segments of the path
UnderAtBoundary(path, prefix) ==
    /\ StartsWith(path, prefix)
    /\ \/ Len(path) = Len(prefix)
       \/ prefix[Len(prefix)] = "/"
       \/ path[Len(prefix) + 1] = "/"

\* C29: the static-file stage intercepts a request only when its path lies
\* under a static URL prefix at a path-segment boundary: a path that merely
\* begins with the characters of a static prefix is delegated to the stage
\* below and reaches the application that calls Router.resolve.
C29_StaticPrefixAtBoundary ==
    \A k \in InStatic :
        LET cfg == k.cfg
            path == k.req.path
            under == \/ UnderAtBoundary(path, cfg.static_url)
                     \/ \E i \in WithPrefix(cfg) :
                           UnderAtBoundary(path, cfg.blueprint_statics[i].static_url_path)
        IN  ~under =>
               /\ StaticSends(cfg, k.did.events) = {}
               /\ Count(k.did.events, "inner.enter") = 1

(***************************************************************************)
(* The specification of the request's CSRF token: registrations, and calls *)
(* of the application for requests without the csrf_token cookie, with an  *)
(* empty one and with a token in it, to a route, an unknown path and a     *)
(* static URL, with handlers that return a Response or a str.              *)
(***************************************************************************)
\* "Cookie: csrf_token="
EmptyCookie == [csrf_token |-> ""]

E_str == [E_normal EXCEPT !.ret = "str"]

TokenRequests ==
    RequestsOf({"http"}, {GET, POST}, {P_root, P_x, P_s_a},
               FormWithToken, {NoCookies, EmptyCookie, TokenCookie}, {None},
               {FormProperty})

NextToken ==
    \/ Register(MwPatterns, MwMethodArgs, MaxMwRoutes)
    \/ Request("A", AppConfigs, TokenRequests, {E_normal, E_str})
    \/ HandleAsgi("B")

SpecToken == Init /\ [][NextToken]_vars

\* the calls of the application for an http request that is to be
\* dispatched to a handler: it is not one the CSRF stage rejects, its path
\* is not a static URL, and a registered route answers its path and method
ToBeDispatched ==
    {k \in Ended :
        /\ k.op = "request"
        /\ k.req.type = "http"
        /\ CsrfClear(k.req)
        /\ ~IsStaticUrl(k.cfg, k.req.path)
        /\ ResolveOp(k.req.path, k.req.method).kind = "ok"}

\* a fresh token was generated, it is the token of the request, and the
\* response sets the csrf_token cookie to it
FreshTokenSet(k) ==
    /\ k.new_csrf_token_generated
    /\ k.csrf_token \in FreshTokens
    /\ k.set_cookie = k.csrf_token

\* the token of the request is the cookie's and the response sets no
\* csrf_token cookie
CookieTokenKept(k) ==
    /\ k.csrf_token = k.req.cookies["csrf_token"]
    /\ k.set_cookie = None

\* C21: for a request that arrives without a csrf_token cookie and is
\* dispatched to a handler, a fresh token is generated and the response
\* sets the csrf_token cookie to exactly the token exposed to the handler as
\* req.csrf_token; for a request that carries the cookie, req.csrf_token
\* equals the cookie value and the response does not set a new csrf_token
\* cookie.
C21_TokenOfAnyCookie ==
    \A k \in ToBeDispatched :
        /\ k.did.raised = None
        /\ IF "csrf_token" \notin DOMAIN k.req.cookies
           THEN FreshTokenSet(k)
           ELSE CookieTokenKept(k)

(***************************************************************************)
(* The specification of the CSRF log: mutating requests sent to the chain  *)
(* by two tasks, from a client whose address is known and from one whose   *)
(* address is not, with and without a form token and a cookie token, of    *)
(* two values each.                                                        *)
(***************************************************************************)
\* forms without a token and with the token t1 or t2
LogBodies == {b \in Bodies : b.content_type = CT_form}

LogCookies == {NoCookies, EmptyCookie, TokenCookie, [csrf_token |-> "t2"]}

\* the requests of the one task, as the server received them without and
\* with the address of the client in the scope, and with either kind of
\* request object
LogRequests ==
    LET reqs == RequestsOf({"http"}, {POST, PUT}, {P_root},
                           LogBodies, LogCookies, {None}, {FormCoroutine})
    IN  reqs \cup {req @@ [client |-> "10.0.0.1"] : req \in reqs}
             \cup RequestsOf({"http"}, {POST}, {P_root}, LogBodies,
                             {NoCookies, TokenCookie}, {None}, {FormProperty})

\* the requests of the other task: POSTs of the client at that address
LogOtherRequests ==
    {req @@ [client |-> "10.0.0.1"] :
        req \in RequestsOf({"http"}, {POST}, {P_root}, LogBodies, LogCookies,
                           {None}, {FormCoroutine})}

NextLog ==
    \/ ChainRequest("A", AppConfigs \ WithBlueprints, LogRequests, {E_normal})
    \/ ChainRequest("B", AppConfigs \ WithBlueprints, LogOtherRequests, {E_normal})
    \/ \E c \in Tasks : Resume(c)

SpecLog == Init /\ [][NextLog]_vars

\* the CSRF stage rejected the request
Rejected(k) == k.op = "chain" /\ Count(k.did.events, "csrf.send 403") = 1

\* the token is there and is not empty
TokenPresent(token) == token \notin {None, ""}

\* the address of the client in the scope, if there is one
ClientAddress(req) == IF "client" \in DOMAIN req THEN <<req.client>> ELSE <<>>

\* the two requests agree on method, path, client address and on the
\* presence of the form token and of the cookie token
SameButTokenValues(r1, r2) ==
    /\ r1.method = r2.method
    /\ r1.path = r2.path
    /\ ClientAddress(r1) = ClientAddress(r2)
    /\ TokenPresent(ClientFormToken(r1)) = TokenPresent(ClientFormToken(r2))
    /\ TokenPresent(Get(r1.cookies, "csrf_token"))
          = TokenPresent(Get(r2.cookies, "csrf_token"))

\* C25: the CSRF failure log never depends on token values: two rejected
\* requests that agree on method, path, client address and on the presence
\* or absence of the form token and of the cookie token (a token being
\* present when it is there and not empty), but differ in the token values,
\* produce identical log output and identical 403 responses.
C25_LogIndependentOfTokens ==
    \A k1, k2 \in Ended :
        (Rejected(k1) /\ Rejected(k2) /\ SameButTokenValues(k1.req, k2.req))
            => /\ k1.log = k2.log
               /\ Len(k1.log) = 1
               /\ k1.did = k2.did

\* C25's case: two POSTs of one client to one path were rejected, each with
\* a form token and a cookie token that differ, and the tokens of the one
\* are not those of the other
C25_Witness ==
    \E k1, k2 \in Ended :
        /\ Rejected(k1)
        /\ Rejected(k2)
        /\ SameButTokenValues(k1.req, k2.req)
        /\ k1.req.method = POST
        /\ "client" \in DOMAIN k1.req
        /\ k1.req.fields = [csrf_token |-> "t1"]
        /\ k1.req.cookies = [csrf_token |-> "t2"]
        /\ k2.req.fields = [csrf_token |-> "t2"]
        /\ k2.req.cookies = [csrf_token |-> "t1"]
        /\ k1.log = k2.log

============================================================================
